---- MODULE Spec2Model ----
(***************************************************************************)
(* A model of the gateway session of blivec (class Connection of           *)
(* src/src/api.ts): the reconnect / heartbeat state machine driven by      *)
(* Node's event loop, the accumulator based framer (_on_data) and the      *)
(* recursive frame decoder (_decode, _decode2).                            *)
(*                                                                         *)
(* Bytes are naturals below 128, buffers are sequences of bytes.           *)
(*                                                                         *)
(* Spec leaves time out: a pending timer fires at any later moment.        *)
(* SpecTimed counts time in units of TimeUnitMs milliseconds; a timer      *)
(* whose delay is shorter than one unit (the 100 ms reconnect delay) is    *)
(* due within the unit in which it was armed.                              *)
(***************************************************************************)
EXTENDS Integers, Sequences, FiniteSets, TLC

----------------------------------------------------------------------------
(* Program constants                                                       *)

HEARTBEAT_INTERVAL == 10000
CONNECT_TIMEOUT == 15000
RECONNECT_DELAY == 100
(* the largest unit that divides both timeouts                             *)
TimeUnitMs == HEARTBEAT_INTERVAL \div 2

HEAD_LENGTH == 16

----------------------------------------------------------------------------
(* Buffer primitives (node:buffer)                                         *)

Min(a, b) == IF a < b THEN a ELSE b

(* buffer.subarray(from, to) with 0-based offsets, clamped to the buffer   *)
subarray(b, from, to) == SubSeq(b, Min(from, Len(b)) + 1, Min(to, Len(b)))

(* buffer.readUInt32BE(i); the caller checks i + 4 <= Len(b)               *)
readUInt32BE(b, i) ==
    b[i + 1] * 16777216 + b[i + 2] * 65536 + b[i + 3] * 256 + b[i + 4]

(* buffer.readInt32BE(i): two's complement; model bytes are below 128      *)
(* so the sign bit is never set                                            *)
readInt32BE(b, i) == readUInt32BE(b, i)

(* buffer.readInt16BE(i): two's complement                                 *)
readInt16BE(b, i) ==
    LET u == b[i + 1] * 256 + b[i + 2]
    IN  IF u >= 32768 THEN u - 65536 ELSE u

(* the four bytes of n, least significant first                            *)
writeInt32LE(n) ==
    << n % 256, (n \div 256) % 256, (n \div 65536) % 256, (n \div 16777216) % 256 >>

(* head.writeInt32BE(n, offset): the four bytes written                    *)
writeInt32BE(n) ==
    << (n \div 16777216) % 256, (n \div 65536) % 256, (n \div 256) % 256, n % 256 >>

----------------------------------------------------------------------------
(* Operation tables                                                        *)

op_to_type(op) ==
    CASE op = 3 -> "heartbeat"
      [] op = 5 -> "message"
      [] op = 8 -> "welcome"
      [] OTHER  -> "unknown"

type_to_op(type) ==
    CASE type = "heartbeat" -> 2
      [] type = "join"      -> 7
      [] OTHER              -> 0

(* an _encode that marks its frames as JSON (protocol 0)                   *)
_encodeJson(type, body) ==
    writeInt32BE(HEAD_LENGTH + Len(body)) \o writeInt32BE(1048576)
        \o writeInt32BE(type_to_op(type)) \o writeInt32BE(1) \o body

(* Connection._encode(type, body), body already a byte string              *)
_encode(type, body) ==
    writeInt32BE(HEAD_LENGTH + Len(body)) \o writeInt32BE(1048577)
        \o writeInt32BE(type_to_op(type)) \o writeInt32BE(1) \o body

----------------------------------------------------------------------------
(* External conversions.  JSON texts of the model are decimal numbers      *)
(* (digits 48..57) and texts containing an unclosed brace (123), which     *)
(* JSON.parse rejects.                                                     *)

IsDigit(c) == c >= 48 /\ c <= 57

RECURSIVE DigitsValue(_)
DigitsValue(s) ==
    IF s = << >> THEN 0
    ELSE DigitsValue(SubSeq(s, 1, Len(s) - 1)) * 10 + (s[Len(s)] - 48)

(* JSON.parse(body.toString('utf8')): a number text parses to its value,   *)
(* the empty text, a text with a leading zero or with a brace throws       *)
JSON_parse(body) ==
    IF /\ Len(body) >= 1
       /\ \A k \in 1..Len(body) : IsDigit(body[k])
       /\ (Len(body) > 1 => body[1] # 48)
    THEN [ok |-> TRUE, v |-> DigitsValue(body)]
    ELSE [ok |-> FALSE, v |-> 0]

(* zlib and brotli streams: a one byte stream header followed by the       *)
(* payload; a body without the header fails to decompress                  *)
ZLIB_MAGIC == 120
BROTLI_MAGIC == 27

deflate(x) == << ZLIB_MAGIC >> \o x
brotliCompress(x) == << BROTLI_MAGIC >> \o x

inflateAsync(body) ==
    IF Len(body) >= 1 /\ body[1] = ZLIB_MAGIC
    THEN [ok |-> TRUE, out |-> Tail(body)]
    ELSE [ok |-> FALSE, out |-> << >>]

brotliDecompressAsync(body) ==
    IF Len(body) >= 1 /\ body[1] = BROTLI_MAGIC
    THEN [ok |-> TRUE, out |-> Tail(body)]
    ELSE [ok |-> FALSE, out |-> << >>]

----------------------------------------------------------------------------
(* The decoder.  A decode ends "ok" with its leaf results, "reject" (the   *)
(* promise rejects) or "hang" (a loop that never ends).  data of a leaf    *)
(* is [k, v]: k = "json" (parsed text), "u32" or "undefined".              *)

Undefined == [k |-> "undefined", v |-> 0]

Leaf(protocol, op, data) ==
    [protocol |-> protocol, type |-> op_to_type(op), data |-> data]

(* a walk that stops after the first sub-frame                             *)
DecodeWalkFirstOnly(buffer, i) ==
    IF i + 4 > Len(buffer) THEN [st |-> "ok", subs |-> << >>]
    ELSE [st |-> "ok", subs |-> << subarray(buffer, i, i + readUInt32BE(buffer, i)) >>]

(* the for loop of _decode: the sub-buffers handed to _decode2             *)
RECURSIVE DecodeWalk(_, _)
DecodeWalk(buffer, i) ==
    IF i >= Len(buffer) THEN [st |-> "ok", subs |-> << >>]
    ELSE IF i + 4 > Len(buffer) THEN [st |-> "reject", subs |-> << >>]
    ELSE LET size == readUInt32BE(buffer, i)
         IN  IF size = 0 THEN [st |-> "hang", subs |-> << >>]
             ELSE LET rest == DecodeWalk(buffer, i + size)
                  IN  [st |-> rest.st,
                       subs |-> << subarray(buffer, i, i + size) >> \o rest.subs]

RECURSIVE Flatten(_)
Flatten(ss) == IF ss = << >> THEN << >> ELSE Head(ss) \o Flatten(Tail(ss))

(* a decode that never waits for a decompression                           *)
NeedsPoolNever(frame) == FALSE

(* does decoding this frame suspend on the decompression thread pool? (a   *)
(* frame too short for its header rejects before any await)                *)
NeedsPool(frame) == Len(frame) >= 12 /\ readInt16BE(frame, 6) \in {2, 3}

(* the order in which the _decode2 tasks of one _decode settle when        *)
(* nothing else delays them: the plain sub-frames in the microtasks that   *)
(* follow, the containers when their decompression returns                 *)
SettleOrder(bufs) ==
    LET idx == [k \in 1..Len(bufs) |-> k]
    IN  SelectSeq(idx, LAMBDA k : ~NeedsPool(bufs[k]))
            \o SelectSeq(idx, LAMBDA k : NeedsPool(bufs[k]))

(* results gathered in the order in which the tasks settle                 *)
PromiseAllByCompletion(rs, order) == [k \in 1..Len(order) |-> rs[order[k]]]

(* Promise.all(tasks): the value of each task is stored at the index of    *)
(* the task as the tasks settle, in the order given                        *)
RECURSIVE PromiseAllFill(_, _, _)
PromiseAllFill(values, rs, order) ==
    IF order = << >> THEN values
    ELSE PromiseAllFill([values EXCEPT ![Head(order)] = rs[Head(order)]], rs, Tail(order))

PromiseAll(rs, order) ==
    PromiseAllFill([k \in 1..Len(rs) |-> [st |-> "pending", rs |-> << >>]], rs, order)

RECURSIVE _decode(_)
RECURSIVE _decode2(_)

(* Connection._decode2(buffer): [st, rs], rs the one leaf of a plain      *)
(* frame or the data (list of results) of a container                     *)
_decode2(buffer) ==
    IF Len(buffer) < 12 THEN [st |-> "reject", rs |-> << >>]
    ELSE
      LET protocol == readInt16BE(buffer, 6)
          op       == readInt32BE(buffer, 8)
          body     == subarray(buffer, 16, Len(buffer))
      IN  CASE protocol = 0 ->
                 LET j == JSON_parse(body)
                 IN  IF j.ok
                     THEN [st |-> "ok",
                           rs |-> << Leaf(protocol, op, [k |-> "json", v |-> j.v]) >>]
                     ELSE [st |-> "reject", rs |-> << >>]
            [] protocol = 1 /\ Len(body) = 4 ->
                 [st |-> "ok",
                  rs |-> << Leaf(protocol, op, [k |-> "u32", v |-> readUInt32BE(body, 0)]) >>]
            [] protocol = 2 ->
                 LET z == inflateAsync(body)
                 IN  IF z.ok THEN _decode(z.out) ELSE [st |-> "reject", rs |-> << >>]
            [] protocol = 3 ->
                 LET z == brotliDecompressAsync(body)
                 IN  IF z.ok THEN _decode(z.out) ELSE [st |-> "reject", rs |-> << >>]
            [] OTHER -> [st |-> "ok", rs |-> << Leaf(protocol, op, Undefined) >>]

(* Connection._decode(buffer): Promise.all over the sub-frames, then       *)
(* flatMap (a container contributes its data, a leaf itself)               *)
(* with the order in which the tasks settle                                *)
_decodeSettling(buffer, order) ==
    LET w     == DecodeWalk(buffer, 0)
        tasks == [k \in 1..Len(w.subs) |-> _decode2(w.subs[k])]
        rs    == PromiseAll(tasks, order)
    IN  IF w.st # "ok" THEN [st |-> w.st, rs |-> << >>]
        ELSE IF \E k \in 1..Len(rs) : rs[k].st = "hang" THEN [st |-> "hang", rs |-> << >>]
        ELSE IF \E k \in 1..Len(rs) : rs[k].st = "reject" THEN [st |-> "reject", rs |-> << >>]
        ELSE [st |-> "ok", rs |-> Flatten([k \in 1..Len(rs) |-> rs[k].rs])]

_decode(buffer) == _decodeSettling(buffer, SettleOrder(DecodeWalk(buffer, 0).subs))

(* a frame loop written with if in place of while: one frame per chunk     *)
FrameLoopOnce(buf) ==
    IF Len(buf) < 4 THEN [frames |-> << >>, rest |-> buf, hang |-> FALSE]
    ELSE LET length == readUInt32BE(buf, 0)
         IN  IF length > Len(buf) THEN [frames |-> << >>, rest |-> buf, hang |-> FALSE]
             ELSE [frames |-> << subarray(buf, 0, length) >>,
                   rest |-> subarray(buf, length, Len(buf)), hang |-> FALSE]

----------------------------------------------------------------------------
(* The framer: the while loop of _on_data on the accumulator               *)

RECURSIVE FrameLoop(_)
FrameLoop(buf) ==
    IF Len(buf) < 4 THEN [frames |-> << >>, rest |-> buf, hang |-> FALSE]
    ELSE LET length == readUInt32BE(buf, 0)
         IN  IF length > Len(buf) THEN [frames |-> << >>, rest |-> buf, hang |-> FALSE]
             ELSE IF length = 0 THEN [frames |-> << >>, rest |-> buf, hang |-> TRUE]
             ELSE LET r == FrameLoop(subarray(buf, length, Len(buf)))
                  IN  [frames |-> << subarray(buf, 0, length) >> \o r.frames,
                       rest |-> r.rest, hang |-> r.hang]

(* a framer that forgets what the accumulator held                         *)
FramerNoAccumulator(acc, chunk) == FrameLoop(chunk)

(* _on_data on the accumulator: the chunk is appended, then the loop       *)
Framer(acc, chunk) == FrameLoop(acc \o chunk)

(* a frame as the gateway builds it                                        *)
Frame(protocol, op, body) ==
    writeInt32BE(HEAD_LENGTH + Len(body)) \o << 0, HEAD_LENGTH >> \o << 0, protocol >>
        \o writeInt32BE(op) \o writeInt32BE(1) \o body

----------------------------------------------------------------------------
(* Bounds of the model                                                     *)

MaxSockets == 2          \* sockets opened over the life of the session
MaxPending == 2          \* reconnect() runs in flight or scheduled at once
MaxHosts == 2            \* longest host_list the gateway returns
MaxPool == 1             \* container frames being decompressed at once
MaxBuffer == 34          \* bytes the accumulator may hold

----------------------------------------------------------------------------
(* State                                                                   *)

VARIABLES
    timed,            \* time is counted (SpecTimed) or left out (Spec)
    closed,           \* Connection._closed
    socket,           \* Connection.socket: 0 (null) or the id of a socket
    buffer,           \* Connection.buffer, the accumulator
    info,             \* Connection.info: 0 (null) or host_list.length
    connect_index,    \* Connection._connect_index
    timer_reconnect,  \* the timer whose handle timer_reconnect holds
    timer_heartbeat,  \* the timer whose handle timer_heartbeat holds
    untracked,        \* pending timers no field refers to (bag: kind -> count)
    socks,            \* the sockets created so far: id -> record
    runs,             \* reconnect() runs suspended in the lookups of connect()
    pool,             \* decodes suspended on a decompression, in arrival order
    hung,             \* a frame loop that never ends is running
    wd,               \* a reconnect scheduled by the watchdog has not connected yet
    replied,          \* a heartbeat reply was processed since heartbeat() last ran
                      \* (kept while the watchdog that heartbeat armed is pending)
    calls,            \* callbacks of the caller invoked by the last step
    wire,             \* frames written to sockets by the last step
    stream,           \* SpecFramer: the bytes the gateway sends on one socket
    fed,              \* SpecFramer: how many of them _on_data has received
    got,              \* SpecFramer: the frames handed to the decoder so far
    subs,             \* SpecDecode: the sub-frames of a container
    result,           \* SpecDecode, SpecCodec: what _decode gave
    exited,           \* the process was ended by an unhandled rejection
    request,          \* SpecCodec: type and body given to _encode, and its bytes
    pc,               \* getRoomPlayInfo: where the call stands
    queue_of_qn,      \* getRoomPlayInfo: queue_of_qn
    visited,          \* getRoomPlayInfo: visited
    streams,          \* getRoomPlayInfo: streams, label -> PlayInfo
    gets,             \* getRoomPlayInfo: the requests issued so far
    thrown,           \* getRoomPlayInfo: the message of the error thrown
    played,           \* getRoomPlayInfo: the play-info responses received
    room,             \* the room as room_init reports it
    dd                \* D(id, options) of the command line: options and locals

(* the fields of the session other than the accumulator                    *)
session == << timed, closed, socket, info, connect_index, timer_reconnect,
              timer_heartbeat, untracked, socks, runs, pool, wd, replied, calls, wire,
              exited >>

framer == << stream, fed, got >>

decoder == << subs, result >>

resolver == << pc, queue_of_qn, visited, streams, gets, thrown, played, room >>

pure == << framer, decoder, request, resolver, dd >>

vars == << session, buffer, hung, pure >>

(* number of whole time units in a delay of ms milliseconds                *)
Units(ms) == IF timed THEN ms \div TimeUnitMs ELSE 0

(* setTimeout(cb, ms): the pending timer                                   *)
NoTimer == [cb |-> "none", ms |-> 0, left |-> 0]
Timer(cb, ms) == [cb |-> cb, ms |-> ms, left |-> Units(ms)]

(* the timers a field can lose track of: the 100 ms delay of _on_close,    *)
(* never stored, and the two kinds timer_reconnect holds                   *)
TimerKinds ==
    { [cb |-> "reconnect", ms |-> RECONNECT_DELAY, left |-> 0] }
    \cup [cb : {"reconnect", "_on_close"}, ms : {CONNECT_TIMEOUT},
          left : 0..(CONNECT_TIMEOUT \div TimeUnitMs)]

(* the lengths of the host lists getDanmuInfo returns: a single host, or   *)
(* the longest list                                                        *)
HostLens == {1, MaxHosts}

BagAdd(b, x) == [b EXCEPT ![x] = @ + 1]
BagDel(b, x) == [b EXCEPT ![x] = @ - 1]

(* the world a handler reads and writes, as one record                     *)
World ==
    [closed |-> closed, socket |-> socket, buffer |-> buffer, info |-> info,
     connect_index |-> connect_index, timer_reconnect |-> timer_reconnect,
     timer_heartbeat |-> timer_heartbeat, untracked |-> untracked, socks |-> socks,
     runs |-> runs, pool |-> pool, hung |-> hung, wd |-> wd, exited |-> exited,
     replied |-> replied,
     unhandled |-> FALSE, welcomes |-> FALSE, calls |-> << >>, wire |-> << >>]

RECURSIVE BagSize(_, _)
BagSize(b, S) ==
    IF S = {} THEN 0
    ELSE LET x == CHOOSE y \in S : TRUE IN b[x] + BagSize(b, S \ {x})

(* reconnect() runs in flight or scheduled by an untracked timer           *)
PendingRuns(w) == w.runs + BagSize(w.untracked, {t \in TimerKinds : t.cb = "reconnect"})

(* the host of a socket and what was written to it matter while the       *)
(* session holds the socket: once this.socket is another socket or null    *)
(* it never holds this one again, and it writes to no other                *)
Hosts(w) ==
    [s \in 1..Len(w.socks) |->
        IF s = w.socket THEN w.socks[s]
        ELSE [w.socks[s] EXCEPT !.host = 0, !.n = 0, !.wrote = FALSE, !.welcomed = FALSE]]

(* a promise rejected in this step with no handler: when the microtasks    *)
(* have drained, the runtime either only warns or ends the process         *)
(* (the default of Node.js 15 and later; the repository installs no        *)
(* 'unhandledRejection' handler)                                           *)
UnhandledRejection(w) == IF w.unhandled THEN {FALSE, TRUE} ELSE {w.exited}

(* the handler's result becomes the next state; calls beyond what        *)
(* MaxPending and MaxPool allow are left out                               *)
Commit(w) ==
    \E x \in {w} :
        /\ PendingRuns(x) <= MaxPending
        /\ Len(x.pool) <= MaxPool
        /\ closed' = x.closed
        /\ socket' = x.socket
        /\ buffer' = x.buffer
        /\ info' = x.info
        /\ connect_index' = x.connect_index
        /\ timer_reconnect' = x.timer_reconnect
        /\ timer_heartbeat' = x.timer_heartbeat
        /\ untracked' = x.untracked
        /\ socks' = Hosts(x)
        /\ runs' = x.runs
        /\ pool' = x.pool
        /\ hung' = x.hung
        /\ calls' = x.calls
        /\ wire' = x.wire
        /\ wd' = x.wd
        /\ replied' = (x.replied /\ x.timer_reconnect.cb = "_on_close")
        /\ exited' \in UnhandledRejection(x)
        /\ timed' = timed
        /\ UNCHANGED pure

Emit(w, ev, k, v) == [w EXCEPT !.calls = Append(@, [ev |-> ev, data |-> [k |-> k, v |-> v]])]

----------------------------------------------------------------------------
(* Handlers of Connection, as functions of the world                       *)

(* socket.write(data): the frame goes out on a socket that is connecting   *)
(* (buffered until connected) or open                                      *)
SocketWrite(w, s, data) ==
    IF w.socks[s].st \in {"connecting", "open"}
    THEN [w EXCEPT !.wire = Append(@, [sock |-> s, op |-> readInt32BE(data, 8)]),
                   !.socks[s].wrote = TRUE]
    ELSE w

send(w, data) == IF w.socket # 0 THEN SocketWrite(w, w.socket, data) ELSE w

(* a heartbeat that schedules the next one itself                          *)
heartbeatPeriodic(w) ==
    [send(w, _encode("heartbeat", << >>)) EXCEPT
        !.replied = FALSE,
        !.timer_reconnect = Timer("_on_close", CONNECT_TIMEOUT),
        !.timer_heartbeat = Timer("heartbeat", HEARTBEAT_INTERVAL)]

heartbeat(w) ==
    [send(w, _encode("heartbeat", << >>)) EXCEPT
        !.replied = FALSE,
        !.timer_reconnect = Timer("_on_close", CONNECT_TIMEOUT)]

(* the 100 ms delay of _on_close                                           *)
Delay == Timer("reconnect", RECONNECT_DELAY)

(* an _on_close that schedules nothing                                     *)
_on_close_never(w) == w

_on_close(w) ==
    IF ~w.closed
    THEN [w EXCEPT !.untracked = BagAdd(@, Delay)]
    ELSE w

(* an _on_error that closes the session on the first error (the           *)
(* behaviour before 0.1.5)                                                 *)
_on_error_fatal(w) ==
    [Emit(Emit(w, "error", "undefined", 0), "quit", "undefined", 0) EXCEPT
        !.socket = 0, !.closed = TRUE]

_on_error(w) == [Emit(w, "error", "undefined", 0) EXCEPT !.socket = 0]

(* JSON.stringify of the join request, as a text of the model's JSON       *)
JoinBody == << 51 >>

_on_ready(w) ==
    LET w1 == [w EXCEPT !.timer_reconnect = NoTimer]
    IN  IF w1.info # 0 THEN send(w1, _encode("join", JoinBody)) ELSE w1

(* a reply that also calls the watchdog off                               *)
HeartbeatReplyClears(w) ==
    [w EXCEPT !.timer_heartbeat = Timer("heartbeat", HEARTBEAT_INTERVAL),
              !.timer_reconnect = NoTimer, !.replied = TRUE]

(* type === 'heartbeat': clearTimeout(this.timer_heartbeat) and            *)
(* this.timer_heartbeat = setTimeout(heartbeat, HEARTBEAT_INTERVAL)        *)
HeartbeatReply(w) ==
    [w EXCEPT !.timer_heartbeat = Timer("heartbeat", HEARTBEAT_INTERVAL),
              !.replied = TRUE]

(* a loop that hands every result that is neither welcome nor heartbeat    *)
(* reply to the caller                                                     *)
RECURSIVE DecodedLoopEmitAll(_, _)
DecodedLoopEmitAll(w, rs) ==
    IF rs = << >> THEN w
    ELSE LET r == Head(rs)
             w1 == CASE r.type = "welcome" -> heartbeat([w EXCEPT !.welcomes = TRUE])
                      [] r.type = "heartbeat" -> HeartbeatReply(w)
                      [] OTHER -> Emit(w, "message", r.data.k, r.data.v)
         IN  DecodedLoopEmitAll(w1, Tail(rs))

RECURSIVE DecodedLoop(_, _)
DecodedLoop(w, rs) ==
    IF rs = << >> THEN w
    ELSE LET r == Head(rs)
             w1 == CASE r.type = "welcome" -> heartbeat([w EXCEPT !.welcomes = TRUE])
                      [] r.type = "heartbeat" -> HeartbeatReply(w)
                      [] r.type = "message" -> Emit(w, "message", r.data.k, r.data.v)
                      [] OTHER -> w
         IN  DecodedLoop(w1, Tail(rs))

(* an _on_decoded without the check of _closed                             *)
_on_decodedUnguarded(w, rs) == DecodedLoop(w, rs)

_on_decoded(w, rs) == IF w.closed THEN w ELSE DecodedLoop(w, rs)

(* the decodes started by _on_data, in arrival order: a container waits   *)
(* in the pool for its decompression, any other frame settles in the       *)
(* microtasks that follow _on_data; .then(_on_decoded) has no rejection    *)
(* handler, so a decode that rejects is an unhandled rejection             *)
RECURSIVE StartDecodes(_, _)
StartDecodes(w, frames) ==
    IF frames = << >> THEN w
    ELSE IF NeedsPool(Head(frames))
    THEN StartDecodes([w EXCEPT !.pool = Append(@, _decode(Head(frames)))], Tail(frames))
    ELSE StartDecodes(w, Tail(frames))

RECURSIVE SettleLeaves(_, _)
SettleLeaves(w, frames) ==
    IF frames = << >> THEN w
    ELSE LET f == Head(frames)
             d == _decode(f)
         IN  CASE NeedsPool(f)    -> SettleLeaves(w, Tail(frames))
               [] d.st = "ok"     -> SettleLeaves(_on_decoded(w, d.rs), Tail(frames))
               [] d.st = "reject" -> SettleLeaves([w EXCEPT !.unhandled = TRUE], Tail(frames))
               [] OTHER           -> [w EXCEPT !.hung = TRUE]

_on_data(w, chunk) ==
    LET r  == Framer(w.buffer, chunk)
        w1 == [w EXCEPT !.buffer = r.rest]
    IN  IF r.hang THEN [w1 EXCEPT !.hung = TRUE]
        ELSE SettleLeaves(StartDecodes(w1, r.frames), r.frames)

(* createConnection(port, host): a new socket to host_list[host] of n      *)
(* hosts, connecting, with the handlers of the session attached            *)
NewSocket(host, n) ==
    [st |-> "connecting", attached |-> TRUE, host |-> host, n |-> n, srv |-> << >>,
     wrote |-> FALSE, welcomed |-> FALSE]

(* a socket that emits nothing any more: destroyed, or closed              *)
DeadSocket ==
    [st |-> "closed", attached |-> FALSE, host |-> 0, n |-> 0, srv |-> << >>,
     wrote |-> FALSE, welcomed |-> FALSE]

(* the synchronous part of reconnect(), up to the first await of           *)
(* connect(); the lookups (getMe, getRoomInfo, getDanmuInfo) touch no      *)
(* field of the session until the last one has returned                    *)
reconnect(w) ==
    LET w1 == [w EXCEPT !.timer_reconnect = NoTimer, !.buffer = << >>]
        w2 == IF w1.socket # 0
              THEN [w1 EXCEPT !.socks[w1.socket] = DeadSocket, !.socket = 0]
              ELSE w1
    IN  [w2 EXCEPT !.runs = @ + 1]

(* handing a timer handle to a field forgets the handle it held; a timer   *)
(* that is still pending stays pending                                     *)
Forget(w, t) == IF t.cb = "none" THEN w ELSE [w EXCEPT !.untracked = BagAdd(@, t)]

(* a rotation that stays on the same host                                  *)
NextIndexSame(i, h) == i

(* this._connect_index = (this._connect_index + 1) % host_list.length      *)
NextIndex(i, h) == (i + 1) % h

(* connect() after its last lookup returned a host list of length h, and   *)
(* the rest of reconnect()                                                 *)
connected(w, h) ==
    LET w1 == Emit([w EXCEPT !.info = h], "init", "index", w.connect_index)
        i  == w.connect_index
    IN  IF i >= h
        THEN _on_close(w1)
        ELSE LET id == Len(w1.socks) + 1
                 w2 == [w1 EXCEPT !.connect_index = NextIndex(i, h),
                                  !.socks = Append(@, NewSocket(i, h)),
                                  !.socket = id]
             IN  [Forget(w2, w2.timer_reconnect) EXCEPT
                     !.timer_reconnect = Timer("reconnect", CONNECT_TIMEOUT),
                     !.wd = FALSE]

close(w) ==
    LET w1 == Emit([w EXCEPT !.closed = TRUE, !.timer_heartbeat = NoTimer,
                             !.timer_reconnect = NoTimer],
                   "quit", "undefined", 0)
    IN  IF w1.socket # 0
        THEN [w1 EXCEPT !.socks[w1.socket].st =
                            IF @ = "connecting" THEN "ending0"
                            ELSE IF @ = "open" THEN "ending" ELSE @,
                        !.socket = 0]
        ELSE w1

(* the callback of a timer; _on_close as a timer callback is the           *)
(* heartbeat watchdog                                                      *)
RunTimer(w, cb) ==
    CASE cb = "reconnect" -> reconnect(w)
      [] cb = "_on_close" -> [_on_close(w) EXCEPT !.wd = ~w.closed]
      [] cb = "heartbeat" -> heartbeat(w)
      [] OTHER            -> w

----------------------------------------------------------------------------
(* The gateway: the frames it sends, cut into chunks by the transport      *)

FWelcome == Frame(1, 8, << 48 >>)
FReply   == Frame(1, 3, writeInt32BE(1))
FMessage == Frame(0, 5, << 55 >>)
FZipped  == Frame(2, 5, deflate(Frame(0, 5, << 56 >>)))

ServerFrames == {FWelcome, FReply, FMessage, FZipped}

(* the frames that drive the heartbeat cycle, and a notification           *)
ControlFrames == {FWelcome, FReply, FMessage}

(* where the transport may cut a frame                                     *)
SplitAt == HEAD_LENGTH \div 2

----------------------------------------------------------------------------
(* Actions                                                                 *)

Live == ~hung /\ ~exited

(* socket 'ready'                                                          *)
Ready(s) ==
    /\ Live /\ socks[s].attached /\ socks[s].st \in {"connecting", "ending0"}
    /\ Commit(_on_ready([World EXCEPT
           !.socks[s].st = IF @ = "connecting" THEN "open" ELSE "ending"]))

(* socket 'error': the stream is destroyed and emits 'error' and then      *)
(* 'close' in one tick, so _on_error and _on_close run back to back        *)
SockError(s) ==
    /\ Live /\ socks[s].attached
    /\ socks[s].st \in {"connecting", "open", "ending0", "ending"}
    /\ Commit(_on_close(_on_error([World EXCEPT !.socks[s] = DeadSocket])))

(* socket 'close' without an error: the peer or the session ended it      *)
SockClose(s) ==
    /\ Live /\ socks[s].attached
    /\ socks[s].st \in {"open", "ending0", "ending"}
    /\ Commit(_on_close([World EXCEPT !.socks[s] = DeadSocket]))

(* a decode waiting in the pool, with the socket its frame arrived on      *)
From(d, s) == [st |-> d.st, rs |-> d.rs, from |-> s]

(* what the session does not record: socket s, if it still exists, has     *)
(* had a welcome of its own processed (welcomed), and the decodes that     *)
(* joined the pool of n0 entries come from it                              *)
Received(w, s, n0) ==
    LET w1 == IF w.welcomes /\ w.socks[s].st # "closed"
              THEN [w EXCEPT !.socks[s].welcomed = TRUE] ELSE w
    IN  [w1 EXCEPT !.pool = [k \in 1..Len(@) |-> IF k > n0 THEN From(@[k], s) ELSE @[k]]]

(* socket 'data': the next chunk of the gateway's stream, a whole frame    *)
(* of frames or, when cut is set, possibly the first part of one           *)
Data(s, frames, cut) ==
    /\ Live /\ socks[s].attached /\ socks[s].st \in {"open", "ending"}
    /\ \E f \in frames : \E n \in {SplitAt, Len(f)} :
         LET chunk == IF socks[s].srv # << >> THEN socks[s].srv ELSE subarray(f, 0, n)
             more  == IF socks[s].srv # << >> THEN << >> ELSE subarray(f, n, Len(f))
         IN  /\ (n < Len(f) => cut)
             /\ Len(buffer) + Len(chunk) <= MaxBuffer
             /\ Commit(Received(_on_data([World EXCEPT !.socks[s].srv = more], chunk),
                                 s, Len(pool)))

(* a decompression of the pool completes                                   *)
Decoded(k) ==
    /\ Live /\ k \in 1..Len(pool)
    /\ LET d  == pool[k]
           w1 == [World EXCEPT !.pool = SubSeq(pool, 1, k - 1) \o SubSeq(pool, k + 1, Len(pool))]
       IN  Commit(CASE d.st = "ok"   -> Received(_on_decoded(w1, d.rs), d.from, Len(w1.pool))
                    [] d.st = "hang" -> [w1 EXCEPT !.hung = TRUE]
                    [] OTHER         -> [w1 EXCEPT !.unhandled = TRUE])

(* a lookup of connect() throws: connect().catch(() => null), _on_close()  *)
LookupFail ==
    /\ Live /\ runs > 0
    /\ Commit(_on_close([World EXCEPT !.runs = @ - 1]))

(* the lookups return, getDanmuInfo with a host list of h hosts            *)
Connected(h) ==
    /\ Live /\ runs > 0
    /\ (connect_index < h => Len(socks) < MaxSockets)
    /\ Commit(connected([World EXCEPT !.runs = @ - 1], h))

(* a pending timer is due                                                  *)
FireReconnect ==
    /\ Live /\ timer_reconnect.cb # "none" /\ timer_reconnect.left = 0
    /\ Commit(RunTimer([World EXCEPT !.timer_reconnect = NoTimer], timer_reconnect.cb))

FireHeartbeat ==
    /\ Live /\ timer_heartbeat.cb # "none" /\ timer_heartbeat.left = 0
    /\ Commit(RunTimer([World EXCEPT !.timer_heartbeat = NoTimer], timer_heartbeat.cb))

FireUntracked(t) ==
    /\ Live /\ untracked[t] > 0 /\ t.left = 0
    /\ Commit(RunTimer([World EXCEPT !.untracked = BagDel(@, t)], t.cb))

Pending ==
    {timer_reconnect, timer_heartbeat} \cup {t \in TimerKinds : untracked[t] > 0}

Elapse(t) == IF t.left > 0 THEN [t EXCEPT !.left = @ - 1] ELSE t

(* one unit of time passes: no pending timer is due                        *)
Tick ==
    /\ Live
    /\ \A t \in Pending : t.cb = "none" \/ t.left > 0
    /\ \E t \in Pending : t.cb # "none"
    /\ Commit([World EXCEPT
           !.timer_reconnect = Elapse(@),
           !.timer_heartbeat = Elapse(@),
           !.untracked = [t \in TimerKinds |->
               IF [t EXCEPT !.left = @ + 1] \in TimerKinds
               THEN untracked[[t EXCEPT !.left = @ + 1]] ELSE 0]])

(* the caller                                                              *)
UserClose ==
    /\ Live
    /\ Commit(close(World))

UserReconnect ==
    /\ Live /\ ~closed
    /\ Commit(reconnect(World))

(* the session when the constructor returns: reconnect() has run up to    *)
(* its first await; the two setTimeout(noop) of the field initialisers     *)
(* do nothing when they fire and are left out                              *)
InitSession ==
    /\ closed = FALSE
    /\ socket = 0
    /\ buffer = << >>
    /\ info = 0
    /\ connect_index = 0
    /\ timer_reconnect = NoTimer
    /\ timer_heartbeat = NoTimer
    /\ untracked = [t \in TimerKinds |-> 0]
    /\ socks = << >>
    /\ runs = 1
    /\ pool = << >>
    /\ hung = FALSE
    /\ wd = FALSE
    /\ replied = FALSE
    /\ exited = FALSE
    /\ calls = << >>
    /\ wire = << >>

NoFramer == stream = << >> /\ fed = 0 /\ got = << >>

NoDecoder == subs = << >> /\ result = [st |-> "none", rs |-> << >>]

NoCodec == request = [type |-> "none", body |-> << >>, bytes |-> << >>]

(* getRoomPlayInfo has not been called                                     *)
NoResolver ==
    /\ pc = "idle"
    /\ queue_of_qn = << >>
    /\ visited = {}
    /\ streams = << >>
    /\ gets = << >>
    /\ thrown = ""
    /\ played = << >>
    /\ room = [is_locked |-> FALSE, encrypted |-> FALSE, live_status |-> 1]

(* D has not been called                                                   *)
NoDD ==
    dd = [pc |-> "idle", on_close |-> "default", interval |-> 1, yes |-> FALSE,
          initial |-> TRUE, selected |-> "", info |-> << >>, playing |-> "",
          questions |-> 0, plays |-> 0]

NoPure == NoFramer /\ NoDecoder /\ NoCodec /\ NoResolver /\ NoDD

Init == timed = FALSE /\ InitSession /\ NoPure

Next ==
    \/ \E s \in 1..Len(socks) : Ready(s)
    \/ \E s \in 1..Len(socks) : SockError(s)
    \/ \E s \in 1..Len(socks) : SockClose(s)
    \/ \E s \in 1..Len(socks) : Data(s, ControlFrames, FALSE)
    \/ LookupFail
    \/ \E h \in HostLens : Connected(h)
    \/ FireReconnect
    \/ FireHeartbeat
    \/ \E t \in TimerKinds : FireUntracked(t)
    \/ UserClose
    \/ UserReconnect

Spec == Init /\ [][Next]_vars

(* the same session with time counted                                      *)
InitTimed == timed = TRUE /\ InitSession /\ NoPure

NextTimed == Next \/ Tick

SpecTimed == InitTimed /\ [][NextTimed]_vars

----------------------------------------------------------------------------
(* The framer alone: one socket's byte stream, delivered to _on_data in    *)
(* chunks of any size                                                      *)

MaxStream == 8           \* bytes of the stream

(* bytes that spell the length prefixes 0, 4 and 5                         *)
StreamBytes == {0, HEAD_LENGTH \div 4, HEAD_LENGTH \div 4 + 1}

Streams == UNION {[1..n -> StreamBytes] : n \in 0..MaxStream}

InitFramer ==
    /\ timed = FALSE /\ InitSession
    /\ stream \in Streams
    /\ fed = 0
    /\ got = << >>
    /\ NoDecoder /\ NoCodec /\ NoResolver /\ NoDD

(* socket 'data' with the next n bytes of the stream: _on_data, the frames *)
(* it hands to _decode appended to got                                     *)
Feed(n) ==
    /\ Live /\ fed + n <= Len(stream)
    /\ LET r == Framer(buffer, subarray(stream, fed, fed + n))
       IN  /\ buffer' = r.rest
           /\ got' = got \o r.frames
           /\ hung' = r.hang
    /\ fed' = fed + n
    /\ UNCHANGED << session, stream, decoder, request, resolver, dd >>

NextFramer == \E n \in 1..MaxStream : Feed(n)

SpecFramer == InitFramer /\ [][NextFramer]_vars

----------------------------------------------------------------------------
(* The decoder alone: a container frame built from sub-frames              *)

MaxSubs == 3             \* sub-frames in the container

FBadJson == Frame(0, 5, << 123 >>)
FNested  == Frame(2, 5, deflate(FMessage \o Frame(0, 5, << 56 >>)))
FEmpty   == Frame(3, 5, brotliCompress(<< >>))

SubFrames == {FMessage, FReply, FWelcome, FNested, FEmpty, FBadJson}

(* the container the gateway builds from sub-frames, protocol 2 or 3       *)
Container(protocol, ss) ==
    Frame(protocol, 5, IF protocol = 2 THEN deflate(Flatten(ss))
                       ELSE brotliCompress(Flatten(ss)))

InitDecode ==
    /\ timed = FALSE /\ InitSession
    /\ NoFramer /\ NoCodec /\ NoResolver /\ NoDD
    /\ subs \in UNION {[1..n -> SubFrames] : n \in 0..MaxSubs}
    /\ result = [st |-> "none", rs |-> << >>]

(* _decode of the container, as _on_data calls it                          *)
Decode(protocol) ==
    /\ result.st = "none"
    /\ result' = _decode(Container(protocol, subs))
    /\ UNCHANGED << session, buffer, hung, framer, subs, request, resolver, dd >>

NextDecode == \E protocol \in {2, 3} : Decode(protocol)

SpecDecode == InitDecode /\ [][NextDecode]_vars

----------------------------------------------------------------------------
(* Properties                                                              *)

(* C1: once close() has been called the session opens no socket and        *)
(* writes no frame: every step of a closed session leaves the sockets      *)
(* as many as they were and puts nothing on the wire.                      *)
C1_ClosedStopsNetwork ==
    [][closed => (Len(socks') = Len(socks) /\ wire' = << >>)]_vars

(* C2: after close() has emitted quit, no callback of the caller is        *)
(* invoked again: every step of a closed session, other than a further     *)
(* call of close(), invokes none.                                          *)
C2_NoCallbackAfterQuit ==
    [][(closed /\ ~UserClose) => calls' = << >>]_vars

(* C3: close() on a closed session changes no state and emits no           *)
(* additional quit.                                                        *)
C3_CloseIdempotent ==
    [][(closed /\ UserClose) =>
          /\ calls' = << >>
          /\ UNCHANGED << closed, socket, buffer, info, connect_index,
                          timer_reconnect, timer_heartbeat, untracked, socks,
                          runs, pool >>]_vars

(* C4: when the heartbeat watchdog fires, exactly one reconnect follows:   *)
(* until it has connected, exactly one run of reconnect() is scheduled     *)
(* (the 100 ms delay) or in its lookups, whatever overlaps with it.        *)
C4_WatchdogReconnectsOnce ==
    (wd /\ ~closed) => runs + untracked[Delay] = 1

(* C5: waiting for the welcome is bounded by CONNECT_TIMEOUT: while the    *)
(* socket of a session that is not closed is open (ready, join sent), a    *)
(* timer that ends the wait is armed or a reconnect is already under way.  *)
C5_WelcomeDeadline ==
    (~closed /\ socket # 0 /\ socks[socket].st = "open") =>
        (timer_reconnect.cb # "none" \/ PendingRuns(World) > 0)

(* the callbacks named ev among those of the last step                     *)
Called(cs, ev) == {k \in 1..Len(cs) : cs[k].ev = ev}

(* a connect attempt of a session that is not closed is under way: a       *)
(* socket is attached that is connecting or open, or a reconnect() is      *)
(* scheduled or in its lookups                                             *)
SomeLiveSocket ==
    \E s \in 1..Len(socks) : socks[s].attached /\ socks[s].st \in {"connecting", "open"}

(* a step in which a socket closes or a connect attempt fails              *)
ConnectionLost ==
    \/ \E s \in 1..Len(socks) : SockClose(s) \/ SockError(s)
    \/ LookupFail
    \/ \E h \in HostLens : connect_index >= h /\ Connected(h)

(* C6: when the socket closes or a connect attempt fails while the         *)
(* session is not closed, one more reconnect is scheduled with the fixed   *)
(* 100 ms delay; and a session that is not closed always has a live        *)
(* socket attached or a reconnect pending.                                 *)
C6_ReconnectAfterLoss ==
    /\ [](~closed => (SomeLiveSocket \/ PendingRuns(World) > 0))
    /\ [][(~closed /\ ConnectionLost) =>
             untracked'[Delay] = untracked[Delay] + 1]_vars

(* C6 witness: the gateway closed the session's socket and the reconnect   *)
(* is scheduled                                                            *)
C6_Witness ==
    /\ ~closed /\ socket # 0 /\ socks[socket].st = "closed"
    /\ untracked[Delay] = 1 /\ runs = 0

(* C7: a socket error is reported through onError once and is not fatal:   *)
(* closed keeps its value and no quit is emitted; when the session is not  *)
(* closed a reconnect is scheduled, and the index it will use is the one   *)
(* after the failed socket's host in the rotation.                         *)
C7_ErrorNotFatal ==
    [][\A s \in 1..Len(socks) : SockError(s) =>
          /\ Cardinality(Called(calls', "error")) = 1
          /\ Called(calls', "quit") = {}
          /\ closed' = closed
          /\ connect_index' = connect_index
          /\ (~closed => untracked'[Delay] = untracked[Delay] + 1)
          /\ (s = socket => connect_index = (socks[s].host + 1) % socks[s].n)]_vars

(* C7 witness: the socket to host 0 of two failed; the error was reported, *)
(* the session is open and the reconnect to host 1 is scheduled            *)
C7_Witness ==
    /\ Called(calls, "error") # {} /\ ~closed /\ socket = 0
    /\ untracked[Delay] = 1 /\ connect_index = 1 /\ info = MaxHosts

(* C8 as stated: every attempt, one that ends in a socket or one that      *)
(* fails, advances the host index by one modulo the number of hosts.       *)
C8_EveryAttemptAdvances ==
    [][/\ (LookupFail /\ info > 0) => connect_index' = (connect_index + 1) % info
       /\ \A h \in HostLens :
            (Connected(h) /\ info \in {0, h}) =>
                connect_index' = (connect_index + 1) % h]_vars

(* C8: an attempt whose lookups return H hosts uses the index i its init   *)
(* carries, opens the socket to host i and leaves the index at             *)
(* (i + 1) mod H; an attempt whose lookup throws opens no socket and       *)
(* leaves the index as it was.                                             *)
C8_AttemptRotation ==
    [][/\ LookupFail => (connect_index' = connect_index /\ socks' = socks)
       /\ \A h \in HostLens :
            (Connected(h) /\ connect_index < h) =>
                /\ calls' = << [ev |-> "init",
                                data |-> [k |-> "index", v |-> connect_index]] >>
                /\ Len(socks') = Len(socks) + 1
                /\ socks'[socket'].host = connect_index
                /\ connect_index' = (connect_index + 1) % h]_vars

(* C8 witness: the attempt that used the last host of two wrapped the      *)
(* index around                                                            *)
C8_Witness ==
    /\ Called(calls, "init") # {} /\ calls[1].data.v = MaxHosts - 1
    /\ info = MaxHosts /\ connect_index = 0
    /\ socket # 0 /\ socks[socket].host = MaxHosts - 1

(* the first n bytes of the stream, delivered as a single chunk to a       *)
(* session with an empty accumulator                                       *)
OneChunk(n) == Framer(<< >>, subarray(stream, 0, n))

(* C9: however the stream is cut into chunks, _on_data has handed the      *)
(* decoder the same frames in the same order, and holds the same bytes     *)
(* in the accumulator, as when the bytes arrive in a single chunk.         *)
C9_ChunkIndependence ==
    /\ got = OneChunk(fed).frames
    /\ buffer = OneChunk(fed).rest
    /\ hung = OneChunk(fed).hang

(* C9 witness: a chunk ended inside the length prefix of the second        *)
(* frame, after the first frame was handed on                              *)
C9_Witness ==
    /\ fed < Len(stream) /\ Len(got) = 1 /\ Len(buffer) \in 1..3
    /\ Len(OneChunk(Len(stream)).frames) = 2

(* the result of decoding the i-th sub-frame as a frame received directly  *)
Direct(i) == _decode(subs[i])

IsContainer(frame) == readInt16BE(frame, 6) \in {2, 3}

(* C10 as stated: a container of N sub-frames, each of which decodes when  *)
(* received directly, yields exactly N results, the i-th the result of     *)
(* the i-th sub-frame.                                                     *)
C10_ExactlyN ==
    (result.st # "none" /\ \A i \in 1..Len(subs) : Direct(i).st = "ok") =>
        /\ result.st = "ok"
        /\ Len(result.rs) = Len(subs)
        /\ \A i \in 1..Len(subs) : Direct(i).rs = << result.rs[i] >>

(* C10: a container of N sub-frames yields the results of decoding each    *)
(* sub-frame directly, concatenated in order: one result for a sub-frame   *)
(* of protocol 0 or 1, all the leaf results of a sub-frame that is itself  *)
(* a container, hence exactly N when no sub-frame is a container; when a   *)
(* sub-frame fails to decode, the container yields nothing.                *)
C10_LeafResults ==
    result.st # "none" =>
        IF \A i \in 1..Len(subs) : Direct(i).st = "ok"
        THEN /\ result.st = "ok"
             /\ result.rs = Flatten([i \in 1..Len(subs) |-> Direct(i).rs])
             /\ (\A i \in 1..Len(subs) : ~IsContainer(subs[i])) =>
                    /\ Len(result.rs) = Len(subs)
                    /\ \A i \in 1..Len(subs) : Direct(i).rs = << result.rs[i] >>
        ELSE result = [st |-> "reject", rs |-> << >>]

(* C10 witness: a container of a message and a nested container of two     *)
(* messages was decoded to three results                                   *)
C10_Witness ==
    /\ result.st = "ok" /\ subs = << FMessage, FNested >>
    /\ Len(result.rs) = 3

----------------------------------------------------------------------------
(* The codec alone: a frame of the session encoded, then decoded           *)

MaxBody == 4             \* bytes of the body given to _encode

(* the bytes of the bodies: digits and an opening brace                    *)
BodyBytes == {48, 51, 123}

InitCodec ==
    /\ timed = FALSE /\ InitSession
    /\ NoFramer /\ NoDecoder /\ NoResolver /\ NoDD
    /\ request \in [type : {"join", "heartbeat"},
                    body : UNION {[1..n -> BodyBytes] : n \in 0..MaxBody},
                    bytes : {<< >>}]

(* this._encode(type, body)                                                *)
Encode ==
    /\ request.bytes = << >>
    /\ request' = [request EXCEPT !.bytes = _encode(request.type, request.body)]
    /\ UNCHANGED << session, buffer, hung, framer, decoder, resolver, dd >>

(* this._decode(bytes) of the encoded frame                                *)
DecodeBack ==
    /\ request.bytes # << >> /\ result.st = "none"
    /\ result' = _decode(request.bytes)
    /\ UNCHANGED << session, buffer, hung, framer, subs, request, resolver, dd >>

NextCodec == Encode \/ DecodeBack

SpecCodec == InitCodec /\ [][NextCodec]_vars

(* C11 as stated: decoding an encoded join or heartbeat frame yields one   *)
(* result that carries the original operation (its type) and the body.    *)
C11_RoundTrip ==
    result.st # "none" =>
        /\ result.st = "ok" /\ Len(result.rs) = 1
        /\ result.rs[1].type = request.type
        /\ result.rs[1].data # Undefined

(* C11: the encoded frame holds its total length, the operation code (7    *)
(* for join, 2 for heartbeat) and the body where the decoder reads them;   *)
(* decoding it yields one result of protocol 1 whose type is "unknown"     *)
(* and whose data is undefined, or the u32 of the body when the body has   *)
(* exactly 4 bytes.                                                        *)
C11_EncodedFrame ==
    /\ request.bytes # << >> =>
          /\ readUInt32BE(request.bytes, 0) = Len(request.bytes)
          /\ readInt32BE(request.bytes, 8) = (IF request.type = "join" THEN 7 ELSE 2)
          /\ subarray(request.bytes, 16, Len(request.bytes)) = request.body
    /\ result.st # "none" =>
          result = [st |-> "ok",
                    rs |-> << [protocol |-> 1, type |-> "unknown",
                               data |-> IF Len(request.body) = 4
                                        THEN [k |-> "u32",
                                              v |-> readUInt32BE(request.body, 0)]
                                        ELSE Undefined] >>]

(* C11 witness: a heartbeat frame with the empty body was encoded and      *)
(* decoded                                                                 *)
C11_Witness ==
    /\ request.type = "heartbeat" /\ request.body = << >>
    /\ Len(request.bytes) = HEAD_LENGTH /\ result.st = "ok"

----------------------------------------------------------------------------
(* The heartbeat cycle                                                     *)

(* time since heartbeat() last ran, read off the watchdog it armed         *)
SinceHeartbeat == Units(CONNECT_TIMEOUT) - timer_reconnect.left

(* what heartbeat() puts on the wire: a heartbeat frame on the socket the  *)
(* session holds, if it holds one that takes writes                        *)
HeartbeatSent ==
    IF socket # 0 /\ socks[socket].st \in {"connecting", "open"}
    THEN << [sock |-> socket, op |-> 2] >>
    ELSE << >>

(* C12 as stated: after the welcome, while the connection stays up, no     *)
(* more than HEARTBEAT_INTERVAL passes without a heartbeat frame.          *)
C12_EveryInterval ==
    (/\ timed /\ ~closed /\ socket # 0 /\ socks[socket].st = "open"
     /\ timer_reconnect.cb = "_on_close") =>
        SinceHeartbeat <= Units(HEARTBEAT_INTERVAL)

(* C12: a welcome processed on a session that is not closed sends a        *)
(* heartbeat frame at once and leaves the heartbeat timer as it is; a      *)
(* heartbeat reply arms the heartbeat timer for HEARTBEAT_INTERVAL; when   *)
(* that timer fires the next heartbeat frame is sent and the timer is not  *)
(* armed again; no other step sends a heartbeat frame.                     *)
C12_HeartbeatCycle ==
    [][/\ \A s \in 1..Len(socks) :
            (Data(s, {FWelcome}, FALSE) /\ ~closed) =>
                /\ wire' = HeartbeatSent
                /\ timer_reconnect' = Timer("_on_close", CONNECT_TIMEOUT)
                /\ timer_heartbeat' = timer_heartbeat
       /\ \A s \in 1..Len(socks) :
            (Data(s, {FReply}, FALSE) /\ ~closed) =>
                /\ wire' = << >>
                /\ timer_heartbeat' = Timer("heartbeat", HEARTBEAT_INTERVAL)
       /\ FireHeartbeat =>
                /\ wire' = HeartbeatSent
                /\ timer_reconnect' = Timer("_on_close", CONNECT_TIMEOUT)
                /\ timer_heartbeat' = NoTimer
       /\ (\E k \in 1..Len(wire') : wire'[k].op = 2) =>
                \/ FireHeartbeat
                \/ \E s \in 1..Len(socks) : Data(s, {FWelcome}, FALSE)]_vars

(* C12 witness: HEARTBEAT_INTERVAL after a reply the heartbeat timer is    *)
(* due on the open connection, before the watchdog                         *)
C12_Witness ==
    /\ timed /\ ~closed /\ socket # 0 /\ socks[socket].st = "open"
    /\ timer_heartbeat = [cb |-> "heartbeat", ms |-> HEARTBEAT_INTERVAL, left |-> 0]
    /\ timer_reconnect.cb = "_on_close" /\ timer_reconnect.left > 0

----------------------------------------------------------------------------
(* The session under a gateway that sends every kind of frame, well formed *)
(* or not                                                                  *)

(* an operation the client has no event type for                           *)
FUnknown == Frame(1, 4, << >>)
(* a frame cut short of its header: the length field says 8 bytes          *)
FTruncated == writeInt32BE(HEAD_LENGTH \div 2) \o << 0, HEAD_LENGTH, 0, 0 >>
(* a deflate container whose body is no zlib stream                        *)
FBadZip == Frame(2, 5, << 55 >>)

(* a welcome inside a brotli container                                     *)
FZippedWelcome == Frame(3, 5, brotliCompress(FWelcome))

GoodFrames == {FWelcome, FReply, FMessage, FZipped, FZippedWelcome, FUnknown}

BadFrames == {FBadJson, FTruncated, FBadZip}

DataFrames == GoodFrames \cup BadFrames

NextData ==
    \/ Connected(1)
    \/ \E s \in 1..Len(socks) : Ready(s)
    \/ \E s \in 1..Len(socks) : SockError(s)
    \/ \E s \in 1..Len(socks) : Data(s, DataFrames, FALSE)
    \/ \E k \in 1..Len(pool) : Decoded(k)
    \/ FireReconnect
    \/ FireHeartbeat
    \/ \E t \in TimerKinds : FireUntracked(t)
    \/ UserClose

SpecData == Init /\ [][NextData]_vars

(* socket s delivers frame f whole, the accumulator being empty            *)
Receives(s, f) == buffer = << >> /\ socks[s].srv = << >> /\ Data(s, {f}, FALSE)

(* onMessage(data), as the caller sees it                                  *)
OnMessage(data) == [ev |-> "message", data |-> data]

(* C13: on a session that is not closed, a container frame is not          *)
(* delivered in the step it arrives in (its decode waits for the           *)
(* decompression), while a plain notification that arrives is passed to    *)
(* onMessage in that step whatever decompressions are pending, which it    *)
(* leaves pending: delivery does not follow arrival order.                 *)
C13_NotSerialized ==
    [][\A s \in 1..Len(socks) :
        /\ (Receives(s, FZipped) /\ ~closed) =>
              /\ calls' = << >>
              /\ pool' = Append(pool, From(_decode(FZipped), s))
        /\ (Receives(s, FMessage) /\ ~closed) =>
              /\ calls' = << OnMessage([k |-> "json", v |-> 7]) >>
              /\ pool' = pool]_vars

(* C13 witness: the notification 7 of a frame that arrived later has been  *)
(* passed to onMessage while the notification 8 of the container that     *)
(* arrived before it still waits for its decompression                     *)
C13_Witness ==
    /\ ~closed
    /\ calls = << OnMessage([k |-> "json", v |-> 7]) >>
    /\ Len(pool) = 1 /\ pool[1].st = "ok"
    /\ pool[1].rs = << Leaf(0, 5, [k |-> "json", v |-> 8]) >>

OfType(rs, type) == SelectSeq(rs, LAMBDA r : r.type = type)

(* the sockets as the program holds them, without the record of what has   *)
(* passed over them                                                        *)
Plain(ss) ==
    [i \in 1..Len(ss) |-> [ss[i] EXCEPT !.wrote = FALSE, !.welcomed = FALSE]]

(* the effects of a step that hands the results rs to _on_decoded          *)
Dispatched(rs) ==
    /\ calls' = [i \in 1..Len(OfType(rs, "message")) |->
                    OnMessage(OfType(rs, "message")[i].data)]
    /\ IF OfType(rs, "welcome") # << >>
       THEN /\ wire' = HeartbeatSent
            /\ timer_reconnect' = Timer("_on_close", CONNECT_TIMEOUT)
       ELSE /\ wire' = << >>
            /\ timer_reconnect' = timer_reconnect
    /\ IF OfType(rs, "heartbeat") # << >>
       THEN timer_heartbeat' = Timer("heartbeat", HEARTBEAT_INTERVAL)
       ELSE timer_heartbeat' = timer_heartbeat
    /\ Plain(socks') = Plain(socks)
    /\ UNCHANGED << closed, socket, buffer, info, connect_index, untracked,
                    runs, hung, wd, exited >>

(* C14: when results are handed to _on_decoded on a session that is not    *)
(* closed (a plain frame arrives, or the decompression of a container      *)
(* completes), onMessage is invoked exactly once per notification, in      *)
(* order, with the decoded data; a welcome makes heartbeat() run (a        *)
(* heartbeat frame is written to the socket the session holds and the      *)
(* watchdog is armed) and nothing else writes a frame or touches the       *)
(* watchdog; a heartbeat reply arms the heartbeat timer and nothing else   *)
(* touches it; no other session state changes, so a result of any other    *)
(* operation invokes no callback and changes nothing.                      *)
C14_Dispatch ==
    [][/\ \A s \in 1..Len(socks) : \A f \in GoodFrames :
            (~closed /\ ~NeedsPool(f) /\ Receives(s, f)) => Dispatched(_decode(f).rs)
       /\ \A k \in 1..Len(pool) :
            (~closed /\ pool[k].st = "ok" /\ Decoded(k)) => Dispatched(pool[k].rs)
       /\ \A s \in 1..Len(socks) :
            (~closed /\ Receives(s, FUnknown)) =>
                /\ calls' = << >> /\ wire' = << >>
                /\ UNCHANGED << timer_reconnect, timer_heartbeat, pool >>]_vars

(* C14 witness: the heartbeat cycle runs (a welcome and a heartbeat reply  *)
(* have been dispatched) and the notification 8 of a container has just    *)
(* been passed to onMessage                                                *)
C14_Witness ==
    /\ ~closed
    /\ calls = << OnMessage([k |-> "json", v |-> 8]) >>
    /\ timer_heartbeat.cb = "heartbeat"
    /\ timer_reconnect.cb = "_on_close"

(* C15: a frame whose decode fails (malformed JSON body, truncated frame,  *)
(* failed decompression) is swallowed: in the step in which its decode     *)
(* rejects no callback is invoked, the accumulator, both timers and the    *)
(* socket stay as they are, and the session goes on running, so that       *)
(* frames arriving after it are decoded and delivered.                     *)
C15_SwallowedPerFrame ==
    [][/\ \A s \in 1..Len(socks) : \A f \in BadFrames :
            (Receives(s, f) /\ ~NeedsPool(f)) =>
                /\ calls' = << >>
                /\ UNCHANGED << buffer, timer_reconnect, timer_heartbeat, socket >>
                /\ ~exited' /\ ~hung'
       /\ \A k \in 1..Len(pool) :
            (pool[k].st = "reject" /\ Decoded(k)) =>
                /\ calls' = << >>
                /\ UNCHANGED << buffer, timer_reconnect, timer_heartbeat, socket >>
                /\ ~exited' /\ ~hung']_vars

----------------------------------------------------------------------------
(* getRoomPlayInfo: the quality graph resolver.  A text is the sequence    *)
(* of the pieces it is concatenated from.                                  *)

MaxTier == 3             \* quality tiers the server knows, 1 the sentinel

Tiers == 1..MaxTier

DescNames == << "fluent", "high", "highest", "original", "dolby", "4k", "8k" >>

(* Object.fromEntries(g_qn_desc.map(e => [e.qn, e.desc]))                  *)
qn_desc == [q \in Tiers |-> DescNames[q]]

(* what room_init may report                                               *)
Rooms == [is_locked : BOOLEAN, encrypted : BOOLEAN, live_status : {0, 1, 2}]

(* the checks on the room, in the order of the code: the message thrown,   *)
(* "" when the resolver proceeds                                           *)
RoomErrorOfflineFirst(r) ==
    IF r.live_status # 1 THEN "room is offline"
    ELSE IF r.is_locked THEN "room is locked"
    ELSE IF r.encrypted THEN "room is encrypted"
    ELSE ""

RoomError(r) ==
    IF r.is_locked THEN "room is locked"
    ELSE IF r.encrypted THEN "room is encrypted"
    ELSE IF r.live_status # 1 THEN "room is offline"
    ELSE ""

Request(api, qn) == [api |-> api, qn |-> qn]

(* the requests issued once room_init has answered with room r             *)
CheckedLate(r, log) == Append(log, Request("get_status_info_by_uids", 0))

Checked(r, log) ==
    IF RoomError(r) # "" THEN log
    ELSE Append(log, Request("get_status_info_by_uids", 0))

(* protocol_name.includes(piece)                                           *)
Includes(name, piece) == \E i \in 1..Len(name) : name[i] = piece

(* the label of a codec leaf, '-h265' put before '-hls'                    *)
LeafLabelH265First(e) ==
    << qn_desc[e.current_qn] >>
        \o (IF e.codec_name = "hevc" THEN << "-h265" >> ELSE << >>)
        \o (IF Includes(e.protocol_name, "http_hls") THEN << "-hls" >> ELSE << >>)

(* desc after the two += of the inner loop                                 *)
LeafLabel(e) ==
    LET desc  == << qn_desc[e.current_qn] >>
        desc1 == IF Includes(e.protocol_name, "http_hls")
                 THEN desc \o << "-hls" >> ELSE desc
    IN  IF e.codec_name = "hevc" THEN desc1 \o << "-h265" >> ELSE desc1

LeafContainer(e) ==
    IF Includes(e.protocol_name, "http_hls") THEN "m3u8" ELSE e.format_name

(* an entry whose url takes the host of the mirror picked and the extra    *)
(* of the first mirror                                                     *)
PlayInfoMixed(e, qn, pick) ==
    [container |-> LeafContainer(e),
     url |-> << e.url_info[pick].host, e.base_url, e.url_info[1].extra >>,
     qn |-> qn,
     desc |-> qn_desc[e.current_qn]]

(* the stream entry written for leaf e of the response to tier qn, with    *)
(* the mirror sample() picked                                              *)
PlayInfo(e, qn, pick) ==
    [container |-> LeafContainer(e),
     url |-> << e.url_info[pick].host, e.base_url, e.url_info[pick].extra >>,
     qn |-> qn,
     desc |-> qn_desc[e.current_qn]]

(* a loop that enqueues only the first accepted tier of a leaf             *)
RECURSIVE ProcessLeavesFirstAccept(_, _, _, _)
ProcessLeavesFirstAccept(w, leaves, picks, qn) ==
    IF leaves = << >> THEN w
    ELSE LET e == Head(leaves)
         IN  ProcessLeavesFirstAccept(
                 [queue_of_qn |-> w.queue_of_qn \o
                                     (IF e.accept_qn = << >> THEN << >>
                                      ELSE << Head(e.accept_qn) >>),
                  streams |-> (LeafLabel(e) :> PlayInfo(e, qn, Head(picks))) @@ w.streams],
                 Tail(leaves), Tail(picks), qn)

(* a loop that keeps the variant a label already has                      *)
RECURSIVE ProcessLeavesKeepFirst(_, _, _, _)
ProcessLeavesKeepFirst(w, leaves, picks, qn) ==
    IF leaves = << >> THEN w
    ELSE LET e == Head(leaves)
         IN  ProcessLeavesKeepFirst(
                 [queue_of_qn |-> w.queue_of_qn \o e.accept_qn,
                  streams |-> w.streams @@ (LeafLabel(e) :> PlayInfo(e, qn, Head(picks)))],
                 Tail(leaves), Tail(picks), qn)

(* the three nested for loops over the codec leaves of one response        *)
RECURSIVE ProcessLeaves(_, _, _, _)
ProcessLeaves(w, leaves, picks, qn) ==
    IF leaves = << >> THEN w
    ELSE LET e == Head(leaves)
         IN  ProcessLeaves(
                 [queue_of_qn |-> w.queue_of_qn \o e.accept_qn,
                  streams |-> (LeafLabel(e) :> PlayInfo(e, qn, Head(picks))) @@ w.streams],
                 Tail(leaves), Tail(picks), qn)

(* a loop head that forgets the visited set                                *)
AdvanceNoVisited(q, v) ==
    IF q = << >> THEN [queue_of_qn |-> << >>, visited |-> v, qn |-> 0]
    ELSE [queue_of_qn |-> Tail(q), visited |-> v \cup {Head(q)}, qn |-> Head(q)]

(* a loop head that takes the tier enqueued last (pop in place of shift)   *)
RECURSIVE AdvanceLast(_, _)
AdvanceLast(q, v) ==
    IF q = << >> THEN [queue_of_qn |-> << >>, visited |-> v, qn |-> 0]
    ELSE LET qn   == q[Len(q)]
             rest == SubSeq(q, 1, Len(q) - 1)
         IN  IF qn \in v THEN AdvanceLast(rest, v)
             ELSE [queue_of_qn |-> rest, visited |-> v \cup {qn}, qn |-> qn]

(* the head of the while loop, up to the next request (qn) or the exit     *)
(* of the loop (qn = 0)                                                    *)
RECURSIVE Advance(_, _)
Advance(q, v) ==
    IF q = << >> THEN [queue_of_qn |-> << >>, visited |-> v, qn |-> 0]
    ELSE IF Head(q) \in v THEN Advance(Tail(q), v)
    ELSE [queue_of_qn |-> Tail(q), visited |-> v \cup {Head(q)}, qn |-> Head(q)]

(* getRoomPlayInfo(id) is called: the room_init request                    *)
Call ==
    /\ pc = "idle"
    /\ pc' = "room_init"
    /\ gets' = << Request("room_init", 0) >>
    /\ UNCHANGED << session, buffer, hung, framer, decoder, request, dd,
                    queue_of_qn, visited, streams, thrown, played, room >>

(* room_init answers: the three checks, then the title request             *)
InitResponse ==
    /\ pc = "room_init"
    /\ thrown' = RoomError(room)
    /\ pc' = IF RoomError(room) # "" THEN "failed" ELSE "status_info"
    /\ gets' = Checked(room, gets)
    /\ UNCHANGED << session, buffer, hung, framer, decoder, request, dd,
                    queue_of_qn, visited, streams, played, room >>

(* the title answers: the queue is seeded with tier 1 and the loop runs    *)
(* to its first request                                                    *)
StatusResponse ==
    /\ pc = "status_info"
    /\ LET a == Advance(<< 1 >>, {})
       IN  /\ queue_of_qn' = a.queue_of_qn
           /\ visited' = a.visited
           /\ gets' = Append(gets, Request("getRoomPlayInfo", a.qn))
    /\ pc' = "play"
    /\ UNCHANGED << session, buffer, hung, framer, decoder, request, dd,
                    streams, thrown, played, room >>

(* the mirrors sample() may pick, one per leaf                             *)
Picks(leaves) ==
    {p \in [1..Len(leaves) -> 1..2] : \A i \in 1..Len(leaves) : p[i] <= Len(leaves[i].url_info)}

(* play-info for the tier requested last answers with one of the           *)
(* responses of menu: the leaves are processed and the loop runs to its    *)
(* next request or returns                                                 *)
PlayResponse(menu) ==
    /\ pc = "play"
    /\ LET qn == gets[Len(gets)].qn
       IN  \E leaves \in menu[qn] : \E picks \in Picks(leaves) :
             LET w == ProcessLeaves([queue_of_qn |-> queue_of_qn, streams |-> streams],
                                    leaves, picks, qn)
                 a == Advance(w.queue_of_qn, visited)
             IN  /\ played' = Append(played, [qn |-> qn, leaves |-> leaves])
                 /\ streams' = w.streams
                 /\ queue_of_qn' = a.queue_of_qn
                 /\ visited' = a.visited
                 /\ IF a.qn = 0
                    THEN pc' = "returned" /\ gets' = gets
                    ELSE pc' = "play" /\ gets' = Append(gets, Request("getRoomPlayInfo", a.qn))
    /\ UNCHANGED << session, buffer, hung, framer, decoder, request, dd, thrown, room >>

(* the errors of a collaborator call: get() rejects with the error of the  *)
(* request, json() throws the message of an envelope whose code is not 0   *)
RequestErrors == {"ECONNRESET", "message"}

(* where the resolver is after a request awaited at p has failed; here     *)
(* a failed play-info request ends the loop with what was gathered         *)
RejectedPartial(p) == IF p = "play" THEN "returned" ELSE "failed"

(* no try/catch: the rejection is that of getRoomPlayInfo                  *)
Rejected(p) == "failed"

(* the request in flight fails, or its envelope has a code other than 0:   *)
(* get() rejects or json() throws, and so does getRoomPlayInfo             *)
RequestFails(err) ==
    /\ pc \in {"room_init", "status_info", "play"}
    /\ pc' = Rejected(pc)
    /\ thrown' = err
    /\ UNCHANGED << session, buffer, hung, framer, decoder, request, dd,
                    queue_of_qn, visited, streams, gets, played, room >>

(* responses that differ in the tiers their leaves accept                  *)
AcceptLists ==
    {<< >>} \cup {<< a >> : a \in Tiers} \cup {<< a, b >> : a \in Tiers, b \in Tiers}

GraphLeaf(qn, accept_qn) ==
    [protocol_name |-> << "http_stream" >>, format_name |-> "flv", codec_name |-> "avc",
     current_qn |-> qn, accept_qn |-> accept_qn, base_url |-> "/live",
     url_info |-> << [host |-> "h1", extra |-> "?e1"] >>]

GraphMenu ==
    [qn \in Tiers |->
        {<< >>} \cup {<< GraphLeaf(qn, a) >> : a \in AcceptLists}
                \cup {<< GraphLeaf(qn, << a >>), GraphLeaf(qn, << 1 >>) >> : a \in Tiers}]

InitResolver ==
    /\ timed = FALSE /\ InitSession /\ NoFramer /\ NoDecoder /\ NoCodec /\ NoDD
    /\ pc = "idle"
    /\ queue_of_qn = << >>
    /\ visited = {}
    /\ streams = << >>
    /\ gets = << >>
    /\ thrown = ""
    /\ played = << >>
    /\ room \in Rooms

NextResolver ==
    \/ Call
    \/ InitResponse
    \/ StatusResponse
    \/ PlayResponse(GraphMenu)
    \/ \E err \in RequestErrors : RequestFails(err)

SpecResolver == InitResolver /\ [][NextResolver]_vars

(* every request is answered or fails                                      *)
SpecResolverLive == SpecResolver /\ WF_vars(NextResolver)

(* the positions in the log of the play-info requests for tier q           *)
PlayRequests(q) == {i \in 1..Len(gets) : gets[i] = Request("getRoomPlayInfo", q)}

Done == pc \in {"returned", "failed"}

(* C16: whatever tiers the leaves of the responses accept, cycles          *)
(* included, getRoomPlayInfo never requests play-info for a tier twice,    *)
(* and, every request being answered, it returns or fails.                 *)
C16_TerminatesOncePerTier ==
    /\ [](\A q \in Tiers : Cardinality(PlayRequests(q)) <= 1)
    /\ <>Done

(* C16 witness: tier 1 accepted [1, 2], tier 2 accepted [1]; the resolver  *)
(* has returned after requesting tier 1 and tier 2, once each              *)
C16_Witness ==
    /\ pc = "returned"
    /\ played = << [qn |-> 1, leaves |-> << GraphLeaf(1, << 1, 2 >>) >>],
                   [qn |-> 2, leaves |-> << GraphLeaf(2, << 1 >>) >>] >>
    /\ gets = << Request("room_init", 0), Request("get_status_info_by_uids", 0),
                 Request("getRoomPlayInfo", 1), Request("getRoomPlayInfo", 2) >>

RoomErrors == {"room is locked", "room is encrypted", "room is offline"}

(* C17: once room_init has answered, getRoomPlayInfo has failed with       *)
(* 'room is locked' if the room is locked, else with 'room is encrypted'   *)
(* if it is encrypted, else with 'room is offline' if live_status is not   *)
(* 1; it has thrown none of the three and gone on to the title request     *)
(* exactly when none of the three conditions holds.                        *)
C17_RoomErrors ==
    (pc \notin {"idle", "room_init"} /\ gets # << >> /\ thrown \notin RequestErrors) =>
        /\ room.is_locked => (pc = "failed" /\ thrown = "room is locked")
        /\ (~room.is_locked /\ room.encrypted) =>
              (pc = "failed" /\ thrown = "room is encrypted")
        /\ (~room.is_locked /\ ~room.encrypted /\ room.live_status # 1) =>
              (pc = "failed" /\ thrown = "room is offline")
        /\ (~room.is_locked /\ ~room.encrypted /\ room.live_status = 1) <=>
              (thrown \notin RoomErrors /\ Len(gets) > 1)

(* C17 witness: a room that is encrypted and offline, but not locked, has  *)
(* been reported as encrypted                                              *)
C17_Witness ==
    /\ pc = "failed" /\ thrown = "room is encrypted"
    /\ ~room.is_locked /\ room.encrypted /\ room.live_status = 0

(* C18: for a room that is locked, encrypted or not live, no request       *)
(* other than room_init is ever issued: no title request, no play-info     *)
(* request.                                                                *)
C18_FailFast ==
    (room.is_locked \/ room.encrypted \/ room.live_status # 1) =>
        /\ \A i \in 1..Len(gets) : gets[i] = Request("room_init", 0)
        /\ Len(gets) <= 1

(* C18 witness: live_status 0: the resolver has failed with 'room is       *)
(* offline' after the room_init request alone                              *)
C18_Witness ==
    /\ pc = "failed" /\ thrown = "room is offline"
    /\ ~room.is_locked /\ ~room.encrypted /\ room.live_status = 0
    /\ gets = << Request("room_init", 0) >>

(* the tiers the leaves of the response to tier q accept                   *)
Accepted(q) ==
    {t \in Tiers : \E i \in 1..Len(played) : \E j \in 1..Len(played[i].leaves) :
        /\ played[i].qn = q
        /\ \E n \in 1..Len(played[i].leaves[j].accept_qn) :
              played[i].leaves[j].accept_qn[n] = t}

(* the tiers reachable from the tiers of S along accept_qn                 *)
RECURSIVE Reachable(_)
Reachable(S) ==
    LET S1 == S \cup UNION {Accepted(q) : q \in S}
    IN  IF S1 = S THEN S ELSE Reachable(S1)

Requested == {q \in Tiers : PlayRequests(q) # {}}

(* C19: when the resolver returns, the tiers it requested play-info for    *)
(* are exactly the tiers reachable from tier 1 along the accept_qn lists   *)
(* of the leaves in the responses it received.                             *)
C19_RequestedIsReachable ==
    pc = "returned" => Requested = Reachable({1})

(* C19 witness: tier 1 accepted tier 3 only, whose leaves accepted 1 and   *)
(* 3: the resolver has returned having requested 1 and 3 and not tier 2    *)
C19_Witness ==
    /\ pc = "returned"
    /\ Requested = {1, 3}
    /\ Accepted(1) = {3} /\ Accepted(3) = {1, 3}

----------------------------------------------------------------------------
(* The resolver under responses that differ in what their leaf is          *)

ProtocolNames == {<< "http_stream" >>, << "http_hls" >>, << "http_hls", "_v2" >>}

CodecNames == {"avc", "hevc"}

Mirrors == << [host |-> "h1", extra |-> "?e1"], [host |-> "h2", extra |-> "?e2"] >>

LabelLeaf(protocol_name, codec_name, current_qn, accept_qn) ==
    [protocol_name |-> protocol_name,
     format_name |-> IF protocol_name = << "http_stream" >> THEN "flv" ELSE "ts",
     codec_name |-> codec_name, current_qn |-> current_qn, accept_qn |-> accept_qn,
     base_url |-> "/live", url_info |-> Mirrors]

(* the one mirror of a backup path                                         *)
BackupMirrors == << [host |-> "h3", extra |-> "?e3"] >>

(* the same leaf offered a second time from another base path, with the    *)
(* mirror of that path                                                     *)
Backup(e) == [e EXCEPT !.base_url = "/backup", !.url_info = BackupMirrors]

LabelLeaves ==
    {LabelLeaf(p, c, q, a) :
        p \in ProtocolNames, c \in CodecNames, q \in Tiers, a \in {<< >>, << MaxTier >>}}

(* a response holds one leaf, or a leaf followed by its backup; the leaf   *)
(* accepts no tier or the last tier                                        *)
LabelMenu ==
    [qn \in Tiers |-> {<< e >> : e \in LabelLeaves} \cup {<< e, Backup(e) >> : e \in LabelLeaves}]

NextLabels ==
    \/ Call
    \/ InitResponse
    \/ StatusResponse
    \/ PlayResponse(LabelMenu)
    \/ \E err \in RequestErrors : RequestFails(err)

SpecLabels == InitResolver /\ [][NextLabels]_vars

(* the codec leaves of the responses received                              *)
PlayedLeaves ==
    UNION {{played[i].leaves[j] : j \in 1..Len(played[i].leaves)} : i \in 1..Len(played)}

IsHls(e) == Includes(e.protocol_name, "http_hls")

Suffixes(label) == {label[i] : i \in 2..Len(label)}

(* label is made of the pieces that leaf e calls for, in their order       *)
IsLabelOf(label, e) ==
    /\ label # << >>
    /\ label[1] = qn_desc[e.current_qn]
    /\ Tail(label) \in {<< >>, << "-hls" >>, << "-h265" >>, << "-hls", "-h265" >>}
    /\ "-hls" \in Suffixes(label) <=> IsHls(e)
    /\ "-h265" \in Suffixes(label) <=> e.codec_name = "hevc"

(* C20: every codec leaf of a response has its variant stored under the    *)
(* label made of the description of its current_qn, then '-hls' exactly    *)
(* when its protocol name contains 'http_hls', then '-h265' exactly when   *)
(* its codec name is 'hevc'; every stored variant has such a leaf, and     *)
(* its container is 'm3u8' for an HLS leaf and the format name otherwise.  *)
C20_Labels ==
    /\ \A e \in PlayedLeaves : \E label \in DOMAIN streams : IsLabelOf(label, e)
    /\ \A label \in DOMAIN streams : \E e \in PlayedLeaves :
          /\ IsLabelOf(label, e)
          /\ streams[label].container = IF IsHls(e) THEN "m3u8" ELSE e.format_name

(* C20 witness: an HLS leaf with codec hevc whose tier is described as     *)
(* 'highest' is stored as 'highest-hls-h265' with container m3u8           *)
C20_Witness ==
    /\ pc = "returned"
    /\ \E e \in PlayedLeaves :
          /\ e.protocol_name = << "http_hls" >> /\ e.codec_name = "hevc"
          /\ qn_desc[e.current_qn] = "highest"
    /\ DOMAIN streams = {<< "highest", "-hls", "-h265" >>}
    /\ streams[<< "highest", "-hls", "-h265" >>].container = "m3u8"

(* the codec leaves met so far, in traversal order, each with the tier     *)
(* whose response held it                                                  *)
Met ==
    Flatten([i \in 1..Len(played) |->
                [j \in 1..Len(played[i].leaves) |->
                    [qn |-> played[i].qn, e |-> played[i].leaves[j]]]])

(* the position in Met of the last leaf that produces label                *)
LastMet(label) ==
    CHOOSE n \in 1..Len(Met) :
        /\ IsLabelOf(label, Met[n].e)
        /\ \A m \in (n + 1)..Len(Met) : ~IsLabelOf(label, Met[m].e)

(* C21: the map has an entry for every label a leaf met so far produces    *)
(* and for no other text, and the entry of a label is the variant of the   *)
(* last leaf, in traversal order, that produces it: the tier requested     *)
(* when that leaf was met, its container, its description and a URL on     *)
(* its base path.                                                          *)
C21_LastWins ==
    /\ \A n \in 1..Len(Met) : \E label \in DOMAIN streams : IsLabelOf(label, Met[n].e)
    /\ \A label \in DOMAIN streams :
          /\ \E n \in 1..Len(Met) : IsLabelOf(label, Met[n].e)
          /\ LET last == Met[LastMet(label)]
             IN  /\ streams[label].qn = last.qn
                 /\ streams[label].container = IF IsHls(last.e) THEN "m3u8" ELSE last.e.format_name
                 /\ streams[label].desc = qn_desc[last.e.current_qn]
                 /\ streams[label].url[2] = last.e.base_url

(* C21 witness: three leaves with one label, two in the response to tier   *)
(* 1 and one in the response to the last tier: the map returned holds the  *)
(* single variant of the third                                             *)
C21_Witness ==
    /\ pc = "returned"
    /\ Len(Met) = 3 /\ Len(played) = 2
    /\ Cardinality(DOMAIN streams) = 1
    /\ \A label \in DOMAIN streams : streams[label].qn = MaxTier /\ streams[label].url[2] = "/live"

Inits(cs) == {n \in 1..Len(cs) : cs[n].ev = "init"}

(* C23: when the lookups of a connect attempt have returned, the step      *)
(* emits exactly one init event, opens one socket, and the socket is       *)
(* opened to the host whose index the event carries.                       *)
C23_InitNamesHost ==
    [][\A h \in HostLens : Connected(h) =>
          /\ Cardinality(Inits(calls')) = 1
          /\ Len(socks') = Len(socks) + 1
          /\ socket' = Len(socks')
          /\ \A n \in Inits(calls') :
                /\ calls'[n].data.v \in 0..(h - 1)
                /\ socks'[socket'].host = calls'[n].data.v]_vars

(* C24: the url of every variant is host, base_url and extra in this       *)
(* order, with the base_url of the leaf that wrote the variant and with    *)
(* host and extra of one and the same entry of that leaf's url_info.       *)
C24_UrlOfOneMirror ==
    \A label \in DOMAIN streams :
        /\ \E n \in 1..Len(Met) : IsLabelOf(label, Met[n].e)
        /\ LET e == Met[LastMet(label)].e
           IN  \E k \in 1..Len(e.url_info) :
                  streams[label].url = << e.url_info[k].host, e.base_url, e.url_info[k].extra >>

(* C24 witness: a returned map with a variant on the second of a leaf's    *)
(* two mirrors and a variant on the mirror of another leaf                 *)
C24_Witness ==
    /\ pc = "returned"
    /\ \E a, b \in DOMAIN streams :
          /\ streams[a].url = << "h2", "/live", "?e2" >>
          /\ streams[b].url = << "h3", "/backup", "?e3" >>

(* C25: a frame built by _encode is 16 header bytes followed by the body;  *)
(* bytes 0..3 are the big-endian total length, 16 plus the length of the   *)
(* body, bytes 4..5 the header length 16, bytes 8..11 the operation code,  *)
(* 7 for a join and 2 for a heartbeat, and bytes 12..15 the sequence 1.    *)
C25_Header ==
    request.bytes # << >> =>
        /\ Len(request.bytes) = 16 + Len(request.body)
        /\ SubSeq(request.bytes, 1, 4) = << 0, 0, 0, 16 + Len(request.body) >>
        /\ SubSeq(request.bytes, 5, 6) = << 0, 16 >>
        /\ SubSeq(request.bytes, 9, 12) =
              << 0, 0, 0, IF request.type = "join" THEN 7 ELSE 2 >>
        /\ SubSeq(request.bytes, 13, 16) = << 0, 0, 0, 1 >>
        /\ SubSeq(request.bytes, 17, Len(request.bytes)) = request.body

(* C25 witness: a join frame with a body of MaxBody bytes has been built   *)
C25_Witness ==
    /\ request.type = "join" /\ Len(request.body) = MaxBody
    /\ Len(request.bytes) = 16 + MaxBody /\ result.st = "none"

----------------------------------------------------------------------------
(* DD mode (function D of cli.ts): poll for the streams, ask which one to  *)
(* play, spawn the player, and replay when the player exits.  A stream map *)
(* is the sequence of its labels in key order; selected = "" is undefined. *)

MaxPlays == 3            \* players spawned in one run
MaxQuestions == 3        \* questions put to the user in one run

StreamNames == {"fluent", "original"}

(* the quality number of a label                                           *)
NameQn(name) == IF name = "original" THEN 10000 ELSE 80

(* the maps getRoomPlayInfo resolves to                                    *)
StreamMaps ==
    {<< >>, << "fluent" >>, << "original" >>, << "fluent", "original" >>,
     << "original", "fluent" >>}

(* what the user types at the question; "" is the empty line               *)
Answers == {"", "1", "2", "3", "n", "max", "retry", "x"}

(* Number.parseInt(answer): 0 stands for NaN                               *)
ParseInt(answer) ==
    CASE answer = "1" -> 1 [] answer = "2" -> 2 [] answer = "3" -> 3 [] OTHER -> 0

(* names.reduce((a, b) => (streams[a].qn > streams[b].qn ? a : b))         *)
RECURSIVE Reduce(_, _)
Reduce(a, names) ==
    IF names = << >> THEN a
    ELSE Reduce(IF NameQn(a) > NameQn(Head(names)) THEN a ELSE Head(names), Tail(names))

(* firstKey(obj): Object.keys(obj)[0] || ''                                *)
firstKey(names) == IF names = << >> THEN "" ELSE names[1]

Keys(names) == {names[i] : i \in 1..Len(names)}

(* what ask(info) resolves to for an answer: a label, "retry", or ""       *)
ask(names, answer) ==
    LET a == IF answer = "" THEN "Y" ELSE answer
        i == ParseInt(a)
    IN  IF i >= 1 /\ i <= Len(names) THEN names[i]
        ELSE CASE a = "n"     -> ""
               [] a = "max"   -> Reduce(Head(names), Tail(names))
               [] a = "retry" -> "retry"
               [] OTHER       -> names[1]

(* a fallback that always goes to the first stream                         *)
FallbackFirst(sel, names) == firstKey(names)

(* if (!selected || !(selected in info.streams))                           *)
(*     selected = firstKey(info.streams)                                   *)
Fallback(sel, names) == IF sel = "" \/ sel \notin Keys(names) THEN firstKey(names) ELSE sel

(* the end of replay(): retry, leave, or spawn the player                  *)
Spawn(d) ==
    CASE d.selected = "retry" -> [d EXCEPT !.pc = "poll"]
      [] d.selected = ""      -> [d EXCEPT !.pc = "quit"]
      [] OTHER                -> [d EXCEPT !.pc = "playing", !.playing = d.selected,
                                           !.plays = @ + 1]

(* replay() once poll() has returned the map names                         *)
replay(d, names) ==
    LET d1 == [d EXCEPT !.info = names]
    IN  CASE d.initial -> [d1 EXCEPT !.pc = "ask"]
          [] d.on_close = "default" ->
                IF d.selected = "" THEN [d1 EXCEPT !.pc = "ask"]
                ELSE Spawn([d1 EXCEPT !.selected = Fallback(d.selected, names)])
          [] d.on_close = "ask" -> [d1 EXCEPT !.pc = "ask"]
          [] OTHER -> Spawn([d1 EXCEPT !.selected = ""])

(* replay() once ask(info) has resolved to sel                             *)
asked(d, sel) ==
    IF ~d.initial /\ d.on_close = "default"
    THEN Spawn([d EXCEPT !.selected = Fallback(sel, d.info)])
    ELSE Spawn([d EXCEPT !.selected = sel])

(* bl d <room_id> [--interval=..] [--on-close=..] [--yes]                  *)
InitDD ==
    /\ timed = FALSE /\ InitSession
    /\ NoFramer /\ NoDecoder /\ NoCodec /\ NoResolver
    /\ dd \in [pc : {"poll"}, on_close : {"default", "ask", "quit"},
               interval : {0, 1}, yes : BOOLEAN, initial : {TRUE},
               selected : {""}, info : {<< >>}, playing : {""},
               questions : {0}, plays : {0}]

(* poll(): getRoomPlayInfo resolved and testUrl of the first url was true  *)
PollOk(names) ==
    /\ dd.pc = "poll" /\ names # << >>
    /\ dd' = replay(dd, names)
    /\ UNCHANGED << session, buffer, hung, framer, decoder, request, resolver >>

(* poll(): getRoomPlayInfo rejected, the map is empty (testUrl of no url   *)
(* is false) or the url failed the test: leave when the interval is 0,     *)
(* wait for the interval otherwise                                         *)
PollFail ==
    /\ dd.pc = "poll"
    /\ dd' = [dd EXCEPT !.pc = IF dd.interval = 0 THEN "quit" ELSE "delay"]
    /\ UNCHANGED << session, buffer, hung, framer, decoder, request, resolver >>

(* await delay(interval * 60 * 1000) is over                               *)
PollAgain ==
    /\ dd.pc = "delay"
    /\ dd' = [dd EXCEPT !.pc = "poll"]
    /\ UNCHANGED << session, buffer, hung, framer, decoder, request, resolver >>

(* ask(info) resolves: with --yes at once, otherwise with the line typed   *)
Answer(answer) ==
    /\ dd.pc = "ask"
    /\ IF dd.yes THEN answer = "" ELSE dd.questions < MaxQuestions
    /\ dd' = asked([dd EXCEPT !.questions = IF dd.yes THEN @ ELSE @ + 1],
                   ask(dd.info, answer))
    /\ UNCHANGED << session, buffer, hung, framer, decoder, request, resolver >>

(* the player process exits: setTimeout(replay, 100, false)                *)
PlayerExit ==
    /\ dd.pc = "playing" /\ dd.plays < MaxPlays
    /\ dd' = [dd EXCEPT !.pc = "timer", !.playing = ""]
    /\ UNCHANGED << session, buffer, hung, framer, decoder, request, resolver >>

(* replay(false) starts                                                    *)
Replay ==
    /\ dd.pc = "timer"
    /\ dd' = [dd EXCEPT !.initial = FALSE,
                        !.pc = IF dd.on_close = "quit" THEN "quit" ELSE "poll"]
    /\ UNCHANGED << session, buffer, hung, framer, decoder, request, resolver >>

NextDD ==
    \/ \E names \in StreamMaps : PollOk(names)
    \/ PollFail
    \/ PollAgain
    \/ \E answer \in Answers : Answer(answer)
    \/ PlayerExit
    \/ Replay

SpecDD == InitDD /\ [][NextDD]_vars

(* C26 as stated: with on-close 'default', once a player has been started  *)
(* the program does not leave by itself: an exit of the player is          *)
(* followed by another start.                                              *)
C26_AlwaysRestarted ==
    (dd.on_close = "default" /\ dd.plays > 0) => dd.pc # "quit"

(* C26: with on-close 'default', after a player has exited no question is  *)
(* asked; when poll() returns streams the player is started in that step   *)
(* on the label selected before if the streams have it and on their first  *)
(* label otherwise; the program leaves only from a poll that failed with   *)
(* interval 0.                                                             *)
C26_RestartsSelected ==
    /\ []((dd.on_close = "default" /\ ~dd.initial) => dd.pc # "ask")
    /\ [][\A names \in StreamMaps :
             (dd.on_close = "default" /\ ~dd.initial /\ PollOk(names)) =>
                /\ dd'.pc = "playing"
                /\ dd'.questions = dd.questions
                /\ dd'.playing = IF dd.selected \in Keys(names) THEN dd.selected
                                 ELSE names[1]]_vars
    /\ [][(dd.on_close = "default" /\ dd.plays > 0 /\ dd'.pc = "quit") =>
             (dd.pc = "poll" /\ dd.interval = 0)]_vars

(* C26 witness: the second player runs on the first available stream,      *)
(* the label selected first being absent from the new streams              *)
C26_Witness ==
    /\ dd.on_close = "default" /\ dd.plays = 2 /\ dd.pc = "playing"
    /\ dd.questions = 1
    /\ dd.info = << "fluent" >> /\ dd.playing = "fluent"

(* the pending timers armed with CONNECT_TIMEOUT: the one timer_reconnect  *)
(* refers to and those no field refers to any more                         *)
Deadlines ==
    (IF timer_reconnect.cb # "none" THEN 1 ELSE 0)
        + BagSize(untracked, {t \in TimerKinds : t.ms = CONNECT_TIMEOUT})

(* C27: at most one connect-timeout or watchdog timer is pending, and it   *)
(* is the one timer_reconnect refers to.                                   *)
C27_OneDeadline ==
    /\ Deadlines <= 1
    /\ \A t \in TimerKinds : t.ms = CONNECT_TIMEOUT => untracked[t] = 0

(* A gateway that keeps to the protocol: it sends nothing on a socket      *)
(* before the join has been written to it, a welcome before anything       *)
(* else, and one reply to a heartbeat; a socket the session no longer      *)
(* holds stays silent                                                      *)
Orderly(s) ==
    IF ~socks[s].wrote THEN {}
    ELSE IF ~socks[s].welcomed THEN {FWelcome}
    ELSE IF timer_reconnect.cb = "_on_close" /\ ~replied THEN {FReply, FMessage}
    ELSE {FMessage}

NextOrderly ==
    \/ \E s \in 1..Len(socks) : Ready(s)
    \/ \E s \in 1..Len(socks) : SockError(s)
    \/ \E s \in 1..Len(socks) : SockClose(s)
    \/ \E s \in 1..Len(socks) : Data(s, Orderly(s), FALSE)
    \/ LookupFail
    \/ \E h \in HostLens : Connected(h)
    \/ FireReconnect
    \/ FireHeartbeat
    \/ \E t \in TimerKinds : FireUntracked(t)
    \/ UserClose
    \/ UserReconnect

SpecOrderly == Init /\ [][NextOrderly]_vars

(* the same with time counted                                              *)
SpecOrderlyTimed == InitTimed /\ [][NextOrderly \/ Tick]_vars

(* C28: the first frame a step writes to a socket nothing was written to   *)
(* is a join frame, and a heartbeat frame is written only to a socket on   *)
(* which a welcome has been received and processed.                        *)
C28_JoinThenWelcome ==
    [][\A n \in 1..Len(wire') :
          LET s == wire'[n].sock
              before == \/ s <= Len(socks) /\ socks[s].wrote
                        \/ \E m \in 1..(n - 1) : wire'[m].sock = s
          IN  /\ ~before => wire'[n].op = 7
              /\ wire'[n].op = 2 => socks'[s].welcomed]_vars

(* the open sockets whose events the session handles                       *)
AttachedOpen == {s \in 1..Len(socks) : socks[s].attached /\ socks[s].st = "open"}

(* C29: at most one open socket has the handlers of the session attached.  *)
C29_OneAttached == Cardinality(AttachedOpen) <= 1

(* the watchdog armed by heartbeat() is due and runs _on_close             *)
Watchdog == FireReconnect /\ timer_reconnect.cb = "_on_close"

(* C30 as stated: the watchdog runs only when no heartbeat reply has been  *)
(* processed since the last heartbeat was sent (a reply whose next         *)
(* heartbeat is due in the same unit of time as the watchdog aside).       *)
C30_OnlyUnanswered ==
    [][Watchdog =>
          (~replied \/ (timer_heartbeat.cb = "heartbeat" /\ timer_heartbeat.left = 0))]_vars

(* C30: a heartbeat reply leaves the watchdog as heartbeat() armed it and  *)
(* arms the heartbeat timer for HEARTBEAT_INTERVAL; the watchdog, when it  *)
(* is due on a session that is not closed, schedules the reconnect         *)
(* whether or not a reply has been processed.                              *)
C30_ReplyKeepsWatchdog ==
    [][/\ \A s \in 1..Len(socks) :
            (Data(s, {FReply}, FALSE) /\ ~closed) =>
                /\ timer_reconnect' = timer_reconnect
                /\ timer_heartbeat' = Timer("heartbeat", HEARTBEAT_INTERVAL)
       /\ (Watchdog /\ ~closed) =>
                /\ untracked'[Delay] = untracked[Delay] + 1
                /\ timer_reconnect' = NoTimer
                /\ wd']_vars

(* C30 witness: the watchdog has run and scheduled the reconnect on an     *)
(* open session whose heartbeat timer, armed by the reply, has one more    *)
(* unit to go: the reply came 10 s after the heartbeat                     *)
C30_Witness ==
    /\ timed /\ ~closed /\ wd /\ socket # 0 /\ socks[socket].st = "open"
    /\ untracked[Delay] = 1
    /\ timer_reconnect = NoTimer
    /\ timer_heartbeat = [cb |-> "heartbeat", ms |-> HEARTBEAT_INTERVAL, left |-> 1]

(* C31: the frame loop of _on_data and the walk of _decode always come to  *)
(* an end: no call is left running a loop that never ends.                 *)
C31_Terminates == ~hung /\ result.st # "hang"

(* C32: whenever _on_data has returned, the accumulator holds no complete  *)
(* frame: it is shorter than 4 bytes or shorter than the length its first  *)
(* 4 bytes declare.                                                        *)
C32_NoCompleteFrameLeft ==
    ~hung => (Len(buffer) < 4 \/ Len(buffer) < readUInt32BE(buffer, 0))

(* C32 witness: _on_data handed a frame on and returned with a length      *)
(* prefix and too few bytes for it in the accumulator                      *)
C32_Witness ==
    /\ ~hung /\ fed > 0 /\ Len(got) >= 1
    /\ Len(buffer) >= 4 /\ Len(buffer) < readUInt32BE(buffer, 0)

C34_SiblingsDelivered ==
    result.st # "none" =>
        \A i \in 1..Len(subs) :
            Direct(i).st = "ok" =>
                \A j \in 1..Len(Direct(i).rs) :
                    \E k \in 1..Len(result.rs) : result.rs[k] = Direct(i).rs[j]

(* C35: the index an init event carries is an index into the host list of  *)
(* the same event, also when successive lookups return host lists of       *)
(* different lengths, and the index the attempt leaves behind is in range  *)
(* too, so that no later attempt is stuck on a host that does not exist.   *)
C35_IndexInRange ==
    [][\A h \in HostLens : Connected(h) =>
          /\ \A n \in Inits(calls') : calls'[n].data.v \in 0..(h - 1)
          /\ connect_index' \in 0..(h - 1)]_vars

(* C36: the qn of every variant is the tier its label describes, the       *)
(* current_qn of the leaf that produced it, whatever tier was requested    *)
(* when the leaf was met.                                                  *)
C36_QnOfLabel ==
    \A label \in DOMAIN streams :
        /\ qn_desc[streams[label].qn] = label[1]
        /\ \E n \in 1..Len(Met) :
              /\ IsLabelOf(label, Met[n].e)
              /\ streams[label].qn = Met[n].e.current_qn

----------------------------------------------------------------------------
(* One container whose sub-frame tasks settle in any order                 *)

(* the orders in which n tasks can settle                                  *)
Orders(n) ==
    {o \in [1..n -> 1..n] : \A i, j \in 1..n : o[i] = o[j] => i = j}

(* _decode2 of the container up to its decompression, then _decode of the  *)
(* decompressed bytes with the sub-frame tasks settling in the given order *)
DecodeSettling(protocol, order) ==
    /\ result.st = "none"
    /\ LET frame == Container(protocol, subs)
           body  == subarray(frame, 16, Len(frame))
           z     == IF protocol = 2 THEN inflateAsync(body)
                    ELSE brotliDecompressAsync(body)
       IN  result' = IF z.ok THEN _decodeSettling(z.out, order)
                     ELSE [st |-> "reject", rs |-> << >>]
    /\ UNCHANGED << session, buffer, hung, framer, subs, request, resolver, dd >>

NextSettle ==
    \E protocol \in {2, 3} : \E order \in Orders(Len(subs)) :
        DecodeSettling(protocol, order)

SpecSettle == InitDecode /\ [][NextSettle]_vars

(* C37: the notifications of one top-level frame are handed on in the      *)
(* order of their sub-frames inside the container, in whatever order the   *)
(* decodes of the sub-frames settle.                                       *)
C37_WireOrder ==
    result.st = "ok" =>
        OfType(result.rs, "message") =
            Flatten([i \in 1..Len(subs) |-> OfType(Direct(i).rs, "message")])

(* C37 witness: a nested container of the notifications 7 and 8 precedes   *)
(* the plain notification 7 and the results are 7, 8, 7                    *)
C37_Witness ==
    /\ result.st = "ok" /\ Len(subs) = 2
    /\ subs[1] = FNested /\ subs[2] = FMessage
    /\ result.rs = << Leaf(0, 5, [k |-> "json", v |-> 7]),
                      Leaf(0, 5, [k |-> "json", v |-> 8]),
                      Leaf(0, 5, [k |-> "json", v |-> 7]) >>

(* the tiers of the play-info requests issued so far, in order             *)
PlayTiers ==
    LET plays == SelectSeq(gets, LAMBDA g : g.api = "getRoomPlayInfo")
    IN  [i \in 1..Len(plays) |-> plays[i].qn]

(* the tiers in the order in which they were enqueued: the sentinel, then  *)
(* the accept_qn lists of the leaves of each response, in traversal order  *)
Enqueued ==
    << 1 >> \o Flatten([n \in 1..Len(Met) |-> Met[n].e.accept_qn])

(* a list without the repetitions of what it already holds                 *)
RECURSIVE FirstSeen(_, _)
FirstSeen(seq, seen) ==
    IF seq = << >> THEN << >>
    ELSE IF Head(seq) \in seen THEN FirstSeen(Tail(seq), seen)
    ELSE << Head(seq) >> \o FirstSeen(Tail(seq), seen \cup {Head(seq)})

(* C38: play-info is requested breadth-first and one request at a time:    *)
(* the tiers requested are, in order, the tiers in the order in which      *)
(* they were first enqueued, the sentinel tier 1 first; at most one        *)
(* request is outstanding, and a further request is issued only in the     *)
(* step that has processed the response to the previous one.               *)
C38_BreadthFirstOneAtATime ==
    /\ [](/\ PlayTiers = SubSeq(FirstSeen(Enqueued, {}), 1, Len(PlayTiers))
          /\ Len(PlayTiers) - Len(played) \in {0, 1}
          /\ pc = "play" => Len(PlayTiers) = Len(played) + 1
          /\ pc = "returned" =>
                (Len(PlayTiers) = Len(played) /\ PlayTiers = FirstSeen(Enqueued, {})))
    /\ [][(Len(PlayTiers') > Len(PlayTiers) /\ PlayTiers # << >>) =>
             /\ Len(PlayTiers') = Len(PlayTiers) + 1
             /\ Len(played') = Len(played) + 1
             /\ played'[Len(played')].qn = PlayTiers[Len(PlayTiers)]]_vars

(* C38 witness: tier 1 accepted 3 then 2; the resolver has returned after  *)
(* requesting 1, 3 and 2 in this order                                     *)
C38_Witness ==
    /\ pc = "returned"
    /\ PlayTiers = << 1, 3, 2 >>
    /\ played[1].leaves = << GraphLeaf(1, << 3, 2 >>) >>

====
